---- MODULE Spec2Model ----
(***************************************************************************)
(* ttymon: the control-sequence filter (src/src/filter.rs), driven by the  *)
(* vte escape-sequence parser it is a Perform implementation for, and the  *)
(* event loop with its adaptive check timer (src/src/pty.rs).              *)
(*                                                                         *)
(* Bytes are integers 0..255, byte strings are sequences of bytes.  The    *)
(* filter (parser registers and FilterState) is one record; every method   *)
(* of the source is an operator from records to records, so that a whole   *)
(* read chunk can be folded through the parser inside one action.          *)
(***************************************************************************)
EXTENDS Integers, Sequences, FiniteSets, TLC

\* ---------------------------------------------------------------- bytes
BEL == 7
ESC == 27
CH_P == 80
CH_LBRACKET == 91
CH_BACKSLASH == 92
CH_RBRACKET == 93
CH_SEMI == 59
CH_COLON == 58
CH_0 == 48
\* b'x', the printable byte the inputs are built from
CH_x == CH_0 + 72

DCS == <<ESC, CH_P>>
CSI == <<ESC, CH_LBRACKET>>
OSC == <<ESC, CH_RBRACKET>>
ST == <<ESC, CH_BACKSLASH>>

\* b"0;" of append_window_title, b"0" of osc_dispatch
ZeroSemi == <<CH_0, CH_SEMI>>
Zero == <<CH_0>>

\* String::from("ttymon")
DefaultTitle == <<116, 116, 121, 109, 111, 110>>

Min(a, b) == IF a <= b THEN a ELSE b

\* ------------------------------------------------------- FilterState
\* FilterState::new
FilterStateNew ==
    [ buffer |-> <<>>,
      current_directory |-> <<>>,
      in_window_title |-> DefaultTitle,
      out_window_title |-> <<>>,
      out_window_title_pending |-> FALSE,
      in_dcs |-> FALSE ]

append(s, byte) == [s EXCEPT !.buffer = Append(@, byte)]

RECURSIVE append_many(_, _)
append_many(s, bytes) ==
    IF bytes = <<>> THEN s
    ELSE append_many(append(s, Head(bytes)), Tail(bytes))

\* the first loop of append_u16: the largest power of ten not above val
\* (u16 arithmetic: val <= 65535, so divisor <= 10000 and never wraps)
RECURSIVE GrowDivisor(_, _)
GrowDivisor(divisor, val_over_10) ==
    IF divisor <= val_over_10 THEN GrowDivisor((divisor * 10) % 65536, val_over_10)
    ELSE divisor

\* the second loop of append_u16: one decimal digit per divisor
RECURSIVE EmitDigits(_, _, _)
EmitDigits(s, v, divisor) ==
    IF divisor = 0 THEN s
    ELSE LET digit == v \div divisor
         IN EmitDigits(append(s, (CH_0 + digit) % 256), v - digit * divisor, divisor \div 10)

append_u16(s, val) == EmitDigits(s, val, GrowDivisor(1, val \div 10))

\* the inner loop of append_params: the subparameters of one parameter
RECURSIVE AppendSubparams(_, _, _)
AppendSubparams(s, param, i) ==
    IF i > Len(param) THEN s
    ELSE AppendSubparams(append_u16(IF i # 1 THEN append(s, CH_SEMI) ELSE s, param[i]),
                         param, i + 1)

RECURSIVE AppendParamsFrom(_, _, _)
AppendParamsFrom(s, params, i) ==
    IF i > Len(params) THEN s
    ELSE AppendParamsFrom(AppendSubparams(IF i # 1 THEN append(s, CH_SEMI) ELSE s,
                                          params[i], 1),
                          params, i + 1)

append_params(s, params) == AppendParamsFrom(s, params, 1)

\* append_window_title with BEL for the terminator
append_window_title_bel(s, title) ==
    append(append_many(append_many(append_many(s, OSC), ZeroSemi), title), BEL)

append_window_title(s, title) ==
    append_many(append_many(append_many(append_many(s, OSC), ZeroSemi), title), ST)

\* set_out_window_title without the comparison with the last title
set_out_window_title_always(s, title) ==
    LET s1 == [s EXCEPT !.out_window_title = title]
    IN IF s1.in_dcs
       THEN [s1 EXCEPT !.out_window_title_pending = TRUE]
       ELSE append_window_title(s1, title)

\* set_out_window_title without the test of in_dcs
set_out_window_title_no_defer(s, title) ==
    IF s.out_window_title # title
    THEN append_window_title([s EXCEPT !.out_window_title = title], title)
    ELSE s

set_out_window_title(s, title) ==
    IF s.out_window_title # title
    THEN LET s1 == [s EXCEPT !.out_window_title = title]
         IN IF s1.in_dcs
            THEN [s1 EXCEPT !.out_window_title_pending = TRUE]
            ELSE append_window_title(s1, title)
    ELSE s

\* char::encode_utf8 for a code point c
EncodeUtf8(c) ==
    IF c < 128 THEN <<c>>
    ELSE IF c < 2048 THEN <<192 + (c \div 64), 128 + (c % 64)>>
    ELSE IF c < 65536
         THEN <<224 + (c \div 4096), 128 + ((c \div 64) % 64), 128 + (c % 64)>>
    ELSE <<240 + (c \div 262144), 128 + ((c \div 4096) % 64),
           128 + ((c \div 64) % 64), 128 + (c % 64)>>

\* str::from_utf8(bytes).is_ok(): well-formed UTF-8
RECURSIVE ValidUtf8(_)
ValidUtf8(b) ==
    IF b = <<>> THEN TRUE
    ELSE LET h == Head(b)
             Cont(i) == i <= Len(b) /\ b[i] >= 128 /\ b[i] <= 191
         IN IF h < 128 THEN ValidUtf8(Tail(b))
            ELSE IF h >= 194 /\ h <= 223
                 THEN Cont(2) /\ ValidUtf8(SubSeq(b, 3, Len(b)))
            ELSE IF h >= 224 /\ h <= 239
                 THEN /\ Cont(2) /\ Cont(3)
                      /\ (h = 224 => b[2] >= 160)
                      /\ (h = 237 => b[2] <= 159)
                      /\ ValidUtf8(SubSeq(b, 4, Len(b)))
            ELSE IF h >= 240 /\ h <= 244
                 THEN /\ Cont(2) /\ Cont(3) /\ Cont(4)
                      /\ (h = 240 => b[2] >= 144)
                      /\ (h = 244 => b[2] <= 143)
                      /\ ValidUtf8(SubSeq(b, 5, Len(b)))
            ELSE FALSE

\* ------------------------------------------- impl Perform for FilterState
print(s, c) == append_many(s, EncodeUtf8(c))

execute(s, byte) == append(s, byte)

hook(s, params, intermediates, action) ==
    append(append_many(append_params(append_many([s EXCEPT !.in_dcs = TRUE], DCS),
                                     params),
                       intermediates),
           action)

put(s, byte) == append(s, byte)

unhook(s) ==
    LET s1 == append_many([s EXCEPT !.in_dcs = FALSE], ST)
    IN IF s1.out_window_title_pending
       THEN append_window_title(s1, s1.out_window_title)
       ELSE s1

\* the loop of osc_dispatch over params.iter().enumerate()
RECURSIVE AppendOscParams(_, _, _)
AppendOscParams(s, params, i) ==
    IF i > Len(params) THEN s
    ELSE AppendOscParams(append_many(IF i # 1 THEN append(s, CH_SEMI) ELSE s, params[i]),
                         params, i + 1)

\* osc_dispatch without the return after the capture of the title
osc_dispatch_fallthrough(s, params, bell_terminated) ==
    LET s0 == IF Len(params) = 2 /\ params[1] = Zero /\ ValidUtf8(params[2])
              THEN [s EXCEPT !.in_window_title = params[2]]
              ELSE s
        s1 == AppendOscParams(append_many(s0, OSC), params, 1)
    IN IF bell_terminated THEN append(s1, BEL) ELSE append_many(s1, ST)

\* osc_dispatch that captures whenever the first parameter is "0"
osc_dispatch_any_count(s, params, bell_terminated) ==
    IF Len(params) >= 2 /\ params[1] = Zero
    THEN IF ValidUtf8(params[2])
         THEN [s EXCEPT !.in_window_title = params[2]]
         ELSE s
    ELSE LET s1 == AppendOscParams(append_many(s, OSC), params, 1)
         IN IF bell_terminated THEN append(s1, BEL) ELSE append_many(s1, ST)

osc_dispatch(s, params, bell_terminated) ==
    IF Len(params) = 2 /\ params[1] = Zero
    THEN IF ValidUtf8(params[2])
         THEN [s EXCEPT !.in_window_title = params[2]]
         ELSE s
    ELSE LET s1 == AppendOscParams(append_many(s, OSC), params, 1)
         IN IF bell_terminated THEN append(s1, BEL) ELSE append_many(s1, ST)

csi_dispatch(s, params, intermediates, action) ==
    append(append_many(append_params(append_many(s, CSI), params), intermediates), action)

esc_dispatch(s, intermediates, byte) ==
    append(append_many(append(s, ESC), intermediates), byte)

\* ------------------------------------------------------------ vte::Parser
\* Parser::new(): the registers of the parser Filter owns.  params holds
\* the finished parameters (each one the sequence of its subparameters),
\* subparams the subparameters of the parameter still being collected.
ParserNew ==
    [ state |-> "Ground",
      intermediates |-> <<>>,
      params |-> <<>>,
      subparams |-> <<>>,
      param |-> 0,
      osc_raw |-> <<>>,
      osc_params |-> <<>>,
      ignoring |-> FALSE ]

\* Filter::new
FilterNew == [parser |-> ParserNew, state |-> FilterStateNew]

IsC0(b) == b \in 0..23 \/ b = 25 \/ b \in 28..31

Only(action) == <<action, "Anywhere">>
Goto(state) == <<"None", state>>

\* The state-change table of the parser Filter::fill drives: for a state
\* and a byte, the action to perform and the state to enter ("Anywhere":
\* stay).  A byte the state has no entry for does nothing.
TableEntry(state, b) ==
    CASE state = "Ground" ->
           IF IsC0(b) THEN Only("Execute")
           ELSE IF b \in 32..127 THEN Only("Print")
           ELSE IF b \in 128..143 \/ b \in 145..154 \/ b = 156 THEN Only("Execute")
           ELSE Only("None")
      [] state = "Escape" ->
           IF IsC0(b) THEN Only("Execute")
           ELSE IF b = 127 THEN Only("Ignore")
           ELSE IF b \in 32..47 THEN <<"Collect", "EscapeIntermediate">>
           ELSE IF b = CH_P THEN Goto("DcsEntry")
           ELSE IF b = CH_LBRACKET THEN Goto("CsiEntry")
           ELSE IF b = CH_RBRACKET THEN Goto("OscString")
           ELSE IF b \in {88, 94, 95} THEN Goto("SosPmApcString")
           ELSE IF b \in 48..126 THEN <<"EscDispatch", "Ground">>
           ELSE Only("None")
      [] state = "EscapeIntermediate" ->
           IF IsC0(b) THEN Only("Execute")
           ELSE IF b \in 32..47 THEN Only("Collect")
           ELSE IF b = 127 THEN Only("Ignore")
           ELSE IF b \in 48..126 THEN <<"EscDispatch", "Ground">>
           ELSE Only("None")
      [] state = "CsiEntry" ->
           IF IsC0(b) THEN Only("Execute")
           ELSE IF b = 127 THEN Only("Ignore")
           ELSE IF b \in 32..47 THEN <<"Collect", "CsiIntermediate">>
           ELSE IF b \in 48..59 THEN <<"Param", "CsiParam">>
           ELSE IF b \in 60..63 THEN <<"Collect", "CsiParam">>
           ELSE IF b \in 64..126 THEN <<"CsiDispatch", "Ground">>
           ELSE Only("None")
      [] state = "CsiParam" ->
           IF IsC0(b) THEN Only("Execute")
           ELSE IF b \in 48..59 THEN Only("Param")
           ELSE IF b = 127 THEN Only("Ignore")
           ELSE IF b \in 60..63 THEN Goto("CsiIgnore")
           ELSE IF b \in 32..47 THEN <<"Collect", "CsiIntermediate">>
           ELSE IF b \in 64..126 THEN <<"CsiDispatch", "Ground">>
           ELSE Only("None")
      [] state = "CsiIntermediate" ->
           IF IsC0(b) THEN Only("Execute")
           ELSE IF b \in 32..47 THEN Only("Collect")
           ELSE IF b = 127 THEN Only("Ignore")
           ELSE IF b \in 48..63 THEN Goto("CsiIgnore")
           ELSE IF b \in 64..126 THEN <<"CsiDispatch", "Ground">>
           ELSE Only("None")
      [] state = "CsiIgnore" ->
           IF IsC0(b) THEN Only("Execute")
           ELSE IF b \in 32..63 \/ b = 127 THEN Only("Ignore")
           ELSE IF b \in 64..126 THEN Goto("Ground")
           ELSE Only("None")
      [] state = "DcsEntry" ->
           IF IsC0(b) \/ b = 127 THEN Only("Ignore")
           ELSE IF b \in 32..47 THEN <<"Collect", "DcsIntermediate">>
           ELSE IF b \in 48..59 THEN <<"Param", "DcsParam">>
           ELSE IF b \in 60..63 THEN <<"Collect", "DcsParam">>
           ELSE IF b \in 64..126 THEN Goto("DcsPassthrough")
           ELSE Only("None")
      [] state = "DcsParam" ->
           IF IsC0(b) \/ b = 127 THEN Only("Ignore")
           ELSE IF b \in 48..59 THEN Only("Param")
           ELSE IF b \in 60..63 THEN Goto("DcsIgnore")
           ELSE IF b \in 32..47 THEN <<"Collect", "DcsIntermediate">>
           ELSE IF b \in 64..126 THEN Goto("DcsPassthrough")
           ELSE Only("None")
      [] state = "DcsIntermediate" ->
           IF IsC0(b) \/ b = 127 THEN Only("Ignore")
           ELSE IF b \in 32..47 THEN Only("Collect")
           ELSE IF b \in 48..63 THEN Goto("DcsIgnore")
           ELSE IF b \in 64..126 THEN Goto("DcsPassthrough")
           ELSE Only("None")
      [] state = "DcsPassthrough" ->
           IF IsC0(b) \/ b \in 32..126 THEN Only("Put")
           ELSE IF b = 127 THEN Only("Ignore")
           ELSE IF b = 156 THEN Goto("Ground")
           ELSE Only("None")
      [] state = "DcsIgnore" ->
           IF IsC0(b) \/ b \in 32..127 THEN Only("Ignore")
           ELSE IF b = 156 THEN Goto("Ground")
           ELSE Only("None")
      [] state = "OscString" ->
           IF b = BEL THEN Goto("Ground")
           ELSE IF IsC0(b) THEN Only("Ignore")
           ELSE IF b \in 32..255 THEN Only("OscPut")
           ELSE Only("None")
      [] state = "SosPmApcString" ->
           IF IsC0(b) \/ b \in 32..127 THEN Only("Ignore")
           ELSE IF b = 156 THEN Goto("Ground")
           ELSE Only("None")

\* The entries of the "anywhere" state are looked up first.
Change(state, b) ==
    IF b = 24 \/ b = 26 THEN <<"Execute", "Ground">>
    ELSE IF b = ESC THEN Goto("Escape")
    ELSE TableEntry(state, b)

\* Params::push / the is_full test in front of it (32 parameters)
PushParam(P) ==
    IF Len(P.params) + Len(P.subparams) = 32
    THEN [P EXCEPT !.ignoring = TRUE]
    ELSE [P EXCEPT !.params = Append(@, Append(P.subparams, P.param)),
                   !.subparams = <<>>]

\* Params of a dispatch: the finished parameters
ParamsOf(P) == P.params

\* the slices osc_dispatch is called with: osc_raw cut at the recorded bounds
OscSlices(P) ==
    [i \in 1..Len(P.osc_params) |->
        SubSeq(P.osc_raw, P.osc_params[i][1] + 1, P.osc_params[i][2])]

\* the end of the parameter that is open when a ';' or the terminator comes
\* (at most 16 parameters are recorded)
OscCloseParam(P) ==
    LET n == Len(P.osc_params)
        idx == Len(P.osc_raw)
    IN IF n = 16 THEN P
       ELSE IF n = 0 THEN [P EXCEPT !.osc_params = <<<<0, idx>>>>]
       ELSE [P EXCEPT !.osc_params = Append(@, <<P.osc_params[n][2], idx>>)]

\* Parser::perform_action on the filter F = [parser, state]
perform_action(F, action, byte) ==
    LET P == F.parser
        S == F.state
    IN CASE action = "Print" -> [F EXCEPT !.state = print(S, byte)]
         [] action = "Execute" -> [F EXCEPT !.state = execute(S, byte)]
         [] action = "Hook" ->
              LET P1 == PushParam(P)
              IN [parser |-> P1,
                  state |-> hook(S, ParamsOf(P1), P1.intermediates, byte)]
         [] action = "Put" -> [F EXCEPT !.state = put(S, byte)]
         [] action = "OscStart" ->
              [F EXCEPT !.parser.osc_raw = <<>>, !.parser.osc_params = <<>>]
         [] action = "OscPut" ->
              IF byte = CH_SEMI
              THEN [F EXCEPT !.parser = OscCloseParam(P)]
              ELSE [F EXCEPT !.parser.osc_raw = Append(@, byte)]
         [] action = "OscEnd" ->
              LET P1 == OscCloseParam(P)
              IN [parser |-> P1,
                  state |-> osc_dispatch(S, OscSlices(P1), byte = BEL)]
         [] action = "Unhook" -> [F EXCEPT !.state = unhook(S)]
         [] action = "CsiDispatch" ->
              LET P1 == PushParam(P)
              IN [parser |-> P1,
                  state |-> csi_dispatch(S, ParamsOf(P1), P1.intermediates, byte)]
         [] action = "EscDispatch" ->
              [F EXCEPT !.state = esc_dispatch(S, P.intermediates, byte)]
         [] action = "Collect" ->
              IF Len(P.intermediates) = 2
              THEN [F EXCEPT !.parser.ignoring = TRUE]
              ELSE [F EXCEPT !.parser.intermediates = Append(@, byte)]
         [] action = "Param" ->
              IF Len(P.params) + Len(P.subparams) = 32
              THEN [F EXCEPT !.parser.ignoring = TRUE]
              ELSE IF byte = CH_SEMI
                   THEN [F EXCEPT !.parser.params = Append(@, Append(P.subparams, P.param)),
                                  !.parser.subparams = <<>>,
                                  !.parser.param = 0]
              ELSE IF byte = CH_COLON
                   THEN [F EXCEPT !.parser.subparams = Append(@, P.param),
                                  !.parser.param = 0]
              ELSE [F EXCEPT !.parser.param =
                        Min(65535, Min(65535, P.param * 10) + (byte - CH_0))]
         [] action = "Clear" ->
              [F EXCEPT !.parser.param = 0,
                        !.parser.ignoring = FALSE,
                        !.parser.intermediates = <<>>,
                        !.parser.params = <<>>,
                        !.parser.subparams = <<>>]
         [] OTHER -> F

ExitAction(state) ==
    CASE state = "DcsPassthrough" -> "Unhook"
      [] state = "OscString" -> "OscEnd"
      [] OTHER -> "None"

EntryAction(state) ==
    CASE state \in {"CsiEntry", "DcsEntry", "Escape"} -> "Clear"
      [] state = "DcsPassthrough" -> "Hook"
      [] state = "OscString" -> "OscStart"
      [] OTHER -> "None"

\* Parser::perform_state_change: the exit action of the state left, the
\* action of the transition, the entry action of the state entered
perform_state_change(F, state, action, byte) ==
    IF state = "Anywhere"
    THEN perform_action(F, action, byte)
    ELSE LET F1 == perform_action(F, ExitAction(F.parser.state), byte)
             F2 == perform_action(F1, action, byte)
             F3 == perform_action(F2, EntryAction(state), byte)
         IN [F3 EXCEPT !.parser.state = state]

\* Parser::advance
advance(F, byte) ==
    LET change == Change(F.parser.state, byte)
    IN perform_state_change(F, change[2], change[1], byte)

\* Filter::fill: the bytes in order, the state after each byte computed
\* before the next byte is taken
RECURSIVE fill(_, _)
fill(F, buffer) ==
    IF buffer = <<>> THEN F
    ELSE LET F1 == advance(F, Head(buffer))
         IN IF F1.parser.state = F1.parser.state THEN fill(F1, Tail(buffer)) ELSE F1

\* Filter::set_out_window_title
filter_set_out_window_title(F, title) ==
    [F EXCEPT !.state = set_out_window_title(@, title)]

\* clear_buffer that also starts the parser afresh
clear_buffer_and_parser(F) == [F EXCEPT !.state.buffer = <<>>, !.parser = ParserNew]

\* Filter::clear_buffer
clear_buffer(F) == [F EXCEPT !.state.buffer = <<>>]

\* ------------------------------------------------- Actions (main.rs)
\* A path is its components and whether it starts at the root; trailing
\* marks a path that ends in a separator.  PathBuf::new() is EmptyPath.
EmptyPath == [absolute |-> FALSE, comps |-> <<>>, trailing |-> FALSE]
AbsPath(comps) == [absolute |-> TRUE, comps |-> comps, trailing |-> FALSE]

RECURSIVE JoinComps(_)
JoinComps(comps) ==
    IF comps = <<>> THEN <<>>
    ELSE IF Len(comps) = 1 THEN comps[1]
    ELSE comps[1] \o <<47>> \o JoinComps(Tail(comps))

\* Path::to_string_lossy
PathString(p) ==
    (IF p.absolute THEN <<47>> ELSE <<>>) \o JoinComps(p.comps)
       \o (IF p.trailing THEN <<47>> ELSE <<>>)

\* Path::strip_prefix(base).is_ok(): base is a prefix by whole components
HasPrefix(p, base) ==
    /\ p.absolute = base.absolute
    /\ Len(base.comps) <= Len(p.comps)
    /\ SubSeq(p.comps, 1, Len(base.comps)) = base.comps

\* PathBuf::from("~").join(home_suffix)
TildeJoin(p, base) ==
    LET suffix == SubSeq(p.comps, Len(base.comps) + 1, Len(p.comps))
    IN [absolute |-> FALSE, comps |-> <<<<126>>>> \o suffix, trailing |-> suffix = <<>>]

Separator == <<32, 45, 32>>

\* Actions::make_window_title on the tracker outputs T and the home directory
make_window_title(T, home, in_window_title) ==
    LET container_string ==
            IF T.container_info # <<>>
            THEN T.container_info[1].container_name \o Separator
            ELSE <<>>
        foreground_cwd ==
            IF HasPrefix(T.foreground_cwd, home)
            THEN TildeJoin(T.foreground_cwd, home)
            ELSE T.foreground_cwd
    IN container_string \o PathString(foreground_cwd) \o Separator
          \o T.foreground_argv0 \o Separator \o in_window_title

\* TerminalState::new
TerminalStateNew ==
    [container_info |-> <<>>, foreground_argv0 |-> <<>>, foreground_cwd |-> EmptyPath]

\* dirs::home_dir(): /home/u
Home == AbsPath(<<<<104, 111, 109, 101>>, <<117>>>>)

\* what TerminalState::update can leave behind, by what procfs shows: bash
\* in /home/u/src; bash in /tmp inside the container "dev"
UpdateOutcomes ==
    { [container_info |-> <<>>,
       foreground_argv0 |-> <<98, 97, 115, 104>>,
       foreground_cwd |-> AbsPath(<<<<104, 111, 109, 101>>, <<117>>, <<115, 114, 99>>>>)],
      [container_info |-> <<[container_name |-> <<100, 101, 118>>]>>,
       foreground_argv0 |-> <<98, 97, 115, 104>>,
       foreground_cwd |-> AbsPath(<<<<116, 109, 112>>>>)] }

\* ------------------------------------------------------ Pty (pty.rs)
\* milliseconds
MIN_CHECK_INTERVAL == 100
MAX_CHECK_INTERVAL == 60000
CHECK_INTERVAL_MULTIPLIER == 5

\* the interval a check step sets, without the cap
NextCheckIntervalUncapped(interval) == interval * CHECK_INTERVAL_MULTIPLIER

\* the interval a check step sets: min(MAX_CHECK_INTERVAL, interval * MULTIPLIER)
NextCheckInterval(interval) ==
    Min(MAX_CHECK_INTERVAL, interval * CHECK_INTERVAL_MULTIPLIER)

\* next_check_time of maybe_check: last_check_time + check_interval, or now
\* when there has been no check yet
NextCheckTimeFromNow(last, interval, t) ==
    IF last = <<>> THEN t ELSE t + interval

NextCheckTime(last, interval, t) ==
    IF last = <<>> THEN t ELSE last[1] + interval

\* the interval after a read of the PTY master, never reset
IntervalAfterReadKept(got_data, interval) == interval

\* the interval after a read of the PTY master whose bytes were written out
\* (got_data) or that returned no byte
IntervalAfterRead(got_data, interval) ==
    IF got_data THEN MIN_CHECK_INTERVAL ELSE interval

\* ===================================================================
\* The filter as a state machine: bytes fed one at a time (Filter::fill
\* on each), set_out_window_title calls and flushes of the output
\* buffer, in any order.
\* ===================================================================
VARIABLES
    filter,     \* the Filter: [parser, state]
    fed,        \* every byte fed since Filter::new, in order
    calls,      \* the set_out_window_title calls made: [at, title, in_dcs, changed]
    stdout,     \* the bytes FilteredBuffer::flush has written, in order
    flushes,    \* the number of flushes that wrote something
    captures,   \* the number of OSC dispatches captured as a title so far
    trace       \* per fed byte: the parser state and the output length after it

filterVars == <<filter, fed, calls, stdout, flushes, captures, trace>>

\* The event loop of Pty::handle.  filter is from_child.filter there.
VARIABLES
    pc,               \* where main is: new, fork, and in Pty::handle: setup,
                      \* check, wait, events; exited
    check_interval,   \* Pty.check_interval, ms
    last_check_time,  \* Pty.last_check_time: <<>> (None) or <<ms>> (Some)
    now,              \* the clock, ms since handle was entered
    remaining,        \* the timeout maybe_check returned
    events,           \* the ready events epoll_wait returned, still to handle
    done,             \* the loop variable done
    result,           \* what handle returned: "running", "ok", "err"
    raw_input,        \* the terminal: "orig", "raw", "restored"
    tracker,          \* the TerminalState behind actions
    written,          \* the bytes of the last write to STDOUT
    to_master,        \* the bytes of the last write to the PTY master
    checks,           \* the check steps run: [at, before, after]
    reads,            \* the PTY master reads that returned data
    inputs,           \* the standard input reads that returned data
    last_event        \* the last event handled: [kind, interval]

handleVars == <<pc, check_interval, last_check_time, now, remaining, events, done,
                result, raw_input, tracker, written, to_master, checks, reads,
                inputs, last_event>>

\* The standard input arm of Pty::handle one system call at a time: to_child
\* (a Buffer) filled by read and flushed by write_all.
VARIABLES
    rpc,          \* where the arm is: "read", "write", "failed", "eof"
    to_child,     \* to_child.buf[0..to_child.count]
    wa_written,   \* the local written of write_all
    eintrs,       \* the writes that failed with EINTR
    stdin_log,    \* the chunks read from standard input, in order
    master_log    \* every byte written to the PTY master, in order

relayVars == <<rpc, to_child, wa_written, eintrs, stdin_log, master_log>>

\* Actions::make_window_title as a function of its inputs.
VARIABLES
    title_args,   \* [T, home, in_window_title]: the tracker outputs, the home
                  \* directory, the inbound title
    title_out     \* <<>>, or <<the title composed from title_args>>

composeVars == <<title_args, title_out>>

\* TerminalState with its nodes, over what procfs and podman answer.
VARIABLES
    root,         \* the chain of nodes from TerminalState.root: Session,
                  \* Group, Session, ...; each node [key, info, fresh]
    updates,      \* the update() calls made
    last_update,  \* <<>>, or <<[pgrp, child, outputs]>>: before the last
                  \* update(), the pgrp of the root's Group and the pid of
                  \* the Session under it (0: none), and whether any of the
                  \* three outputs was set
    procfs,       \* <<>>, or <<what /proc and podman answered during the
                  \* last update(): [tty, group]>>
    walked        \* <<>>, or <<[nodes, cut]>>: the nodes the last update()
                  \* had in the chain, and whether its loop was still
                  \* descending with more nodes than there are processes

trackerVars == <<root, updates, last_update, procfs, walked>>

\* StatParser::parse and Process::get_stat_field over the bytes of a stat file.
VARIABLES
    stat_content, \* the bytes read from /proc/<pid>/stat
    stat_result   \* <<>>, or <<the outcome of parsing stat_content>>

statVars == <<stat_content, stat_result>>

loopVars == <<handleVars, relayVars, composeVars, trackerVars, statVars>>

\* ---------------------------------------------------------------- bounds
MaxFeedLen == 5     \* SpecFeed: every input of up to this many bytes
MaxLen == 2         \* Spec, SpecTitle: every input of up to this many bytes
MaxCalls == 1       \* Spec: set_out_window_title calls
MaxTitleCalls == 2  \* SpecTitle: set_out_window_title calls
MaxFlushes == 1     \* Spec: flushes
MaxSplitLen == 3    \* SpecSplit: every input of up to this many bytes

\* the bytes every input up to the length bound is built from
Bytes == {ESC, BEL, CH_LBRACKET, CH_RBRACKET, CH_P, CH_BACKSLASH, CH_SEMI, CH_0, CH_x}

\* the titles set_out_window_title is called with
Titles == {<<CH_x>>, <<CH_0, CH_x>>}

\* longer inputs, fed beyond the length bound: the sequences of the tests
\* and of the documented scenarios
CsiTestInput == <<ESC, CH_LBRACKET, 49, 48, 53, 109, ESC, CH_LBRACKET, 48, 109>>
HelloText == <<104, 101, 108, 108, 111>>
OscHelloBel == OSC \o ZeroSemi \o HelloText \o <<BEL>>
OscHelloSt == OSC \o ZeroSemi \o HelloText \o ST
Osc2Bel == OSC \o <<50, CH_SEMI, CH_x, BEL>>
Osc2St == OSC \o <<50, CH_SEMI, CH_x>> \o ST
DcsInput == DCS \o <<113, CH_x, CH_x>> \o ST \o <<CH_x>>
TwoDcsInput == DCS \o <<CH_x>> \o ST \o DCS \o <<CH_x>> \o ST
OscSemiBel == OSC \o ZeroSemi \o <<CH_x, CH_SEMI, CH_x, BEL>>
\* titles that are not ASCII: e-acute in UTF-8, and a lone byte ff
OscUtf8Bel == OSC \o ZeroSemi \o <<195, 169, BEL>>
OscBadUtf8Bel == OSC \o ZeroSemi \o <<CH_x, 255, BEL>>
Scenarios ==
    {CsiTestInput, OscHelloBel, OscHelloSt, Osc2Bel, Osc2St, OscSemiBel,
     OscUtf8Bel, OscBadUtf8Bel, DcsInput, TwoDcsInput}

IsPrefix(p, q) == Len(p) <= Len(q) /\ SubSeq(q, 1, Len(p)) = p

ScenarioBytes == UNION {{sc[i] : i \in 1..Len(sc)} : sc \in Scenarios}

MayFeed(b, maxlen) ==
    \/ Len(fed) < maxlen /\ b \in Bytes
    \/ \E sc \in Scenarios : IsPrefix(Append(fed, b), sc)

\* everything the filter has put out so far
Output == stdout \o filter.state.buffer

\* Pty::new and the locals of Pty::handle, with a fresh filter
InitPty ==
    /\ filter = FilterNew
    /\ fed = <<>>
    /\ calls = <<>>
    /\ stdout = <<>>
    /\ flushes = 0
    /\ captures = 0
    /\ trace = <<>>
    /\ pc = "new"
    /\ check_interval = MIN_CHECK_INTERVAL
    /\ last_check_time = <<>>
    /\ now = 0
    /\ remaining = 0
    /\ events = <<>>
    /\ done = FALSE
    /\ result = "running"
    /\ raw_input = "orig"
    /\ tracker = TerminalStateNew
    /\ written = <<>>
    /\ to_master = <<>>
    /\ checks = <<>>
    /\ reads = 0
    /\ inputs = 0
    /\ last_event = [kind |-> "none", interval |-> MIN_CHECK_INTERVAL]
    /\ rpc = "read"
    /\ to_child = <<>>
    /\ wa_written = 0
    /\ eintrs = 0
    /\ stdin_log = <<>>
    /\ master_log = <<>>

\* the root Session of TerminalState::new: SessionNode::new(root_pid, None)
RootPid == 1
RootSession == [key |-> RootPid, info |-> <<>>, fresh |-> FALSE]

\* TerminalState::new, no update() made yet
InitTracker ==
    /\ root = <<RootSession>>
    /\ updates = 0
    /\ last_update = <<>>
    /\ procfs = <<>>
    /\ walked = <<>>

\* no stat file read yet
InitNoStat ==
    /\ stat_content = <<>>
    /\ stat_result = <<>>

Init ==
    /\ InitPty
    /\ InitTracker
    /\ InitNoStat
    /\ title_args = [T |-> TerminalStateNew, home |-> Home, in_window_title |-> DefaultTitle]
    /\ title_out = <<>>

\* whether feeding b ends an OSC string that osc_dispatch captures as a title
IsTitleCapture(F, b) ==
    /\ F.parser.state = "OscString"
    /\ Change("OscString", b)[2] # "Anywhere"
    /\ LET params == OscSlices(OscCloseParam(F.parser))
       IN Len(params) = 2 /\ params[1] = Zero

\* Filter::fill on one byte
Feed(b, maxlen) ==
    /\ MayFeed(b, maxlen)
    /\ filter' = fill(filter, <<b>>)
    /\ fed' = Append(fed, b)
    /\ captures' = IF IsTitleCapture(filter, b) THEN captures + 1 ELSE captures
    /\ trace' = Append(trace, [state |-> filter'.parser.state,
                               outlen |-> Len(stdout) + Len(filter'.state.buffer)])
    /\ UNCHANGED <<calls, stdout, flushes, loopVars>>

\* Filter::set_out_window_title
SetTitle(t, maxcalls) ==
    /\ Len(calls) < maxcalls
    /\ filter' = filter_set_out_window_title(filter, t)
    /\ calls' = Append(calls, [at |-> Len(fed), title |-> t,
                               in_dcs |-> filter.state.in_dcs,
                               changed |-> filter.state.out_window_title # t])
    /\ UNCHANGED <<fed, stdout, flushes, captures, trace, loopVars>>

\* FilteredBuffer::flush with every write complete
Flush ==
    /\ flushes < MaxFlushes
    /\ filter.state.buffer # <<>>
    /\ stdout' = stdout \o filter.state.buffer
    /\ filter' = clear_buffer(filter)
    /\ flushes' = flushes + 1
    /\ UNCHANGED <<fed, calls, captures, trace, loopVars>>

vars == <<filterVars, loopVars>>

\* bytes, title calls and flushes in any order
Next ==
    \/ \E b \in Bytes \cup ScenarioBytes : Feed(b, MaxLen)
    \/ \E t \in Titles : SetTitle(t, MaxCalls)
    \/ Flush

Spec == Init /\ [][Next]_vars

\* bytes only: the filter as a function of its input
NextFeed == \E b \in Bytes \cup ScenarioBytes : Feed(b, MaxFeedLen)

SpecFeed == Init /\ [][NextFeed]_vars

\* bytes and title calls
NextTitle ==
    \/ \E b \in Bytes \cup ScenarioBytes : Feed(b, MaxLen)
    \/ \E t \in Titles : SetTitle(t, MaxTitleCalls)

SpecTitle == Init /\ [][NextTitle]_vars

\* FilteredBuffer::flush at the end of a read: the bytes fed since the flush
\* before are one chunk
FlushChunk ==
    /\ filter.state.buffer # <<>>
    /\ stdout' = stdout \o filter.state.buffer
    /\ filter' = clear_buffer(filter)
    /\ flushes' = flushes + 1
    /\ UNCHANGED <<fed, calls, captures, trace, loopVars>>

\* an input cut into reads at any place: FilteredBuffer::fill and
\* FilteredBuffer::flush in turn
NextSplit ==
    \/ \E b \in Bytes \cup ScenarioBytes : Feed(b, MaxSplitLen)
    \/ FlushChunk

SpecSplit == Init /\ [][NextSplit]_vars

\* ===================================================================
\* The event loop: Pty::handle with Pty::maybe_check, over the clock, the
\* outcomes of epoll_wait, read and write, and what the tracker reports.
\* ===================================================================
MaxTime == 80000   \* no wait is begun that could end after this time, ms
MaxReads == 1       \* PTY master reads that return data
MaxInputs == 1      \* standard input reads that return data

\* what one read of the PTY master can return
Chunks == { <<CH_x>>,
            OSC \o ZeroSemi \o <<CH_x, BEL>>,
            DCS \o <<CH_x>> }

\* what one read of standard input can return
StdinChunks == { <<CH_x>> }

\* how long after the wait began the first event is ready, ms
Delays == {50}

\* the ready events of one epoll_wait by their data: 0 the PTY master, 1
\* standard input
Batches == { <<0>>, <<1>>, <<0, 1>> }

\* handle returns r, raw_input not dropped
ReturnWithoutDrop(r) ==
    /\ pc' = "exited"
    /\ result' = r
    /\ raw_input' = raw_input

\* handle returns r; raw_input is dropped on the way out
Return(r) ==
    /\ pc' = "exited"
    /\ result' = r
    /\ raw_input' = IF raw_input = "raw" THEN "restored" ELSE raw_input

\* main: Pty::new; on Err it reports and calls exit(1)
PtyNew ==
    /\ pc = "new"
    /\ UNCHANGED <<relayVars, composeVars, trackerVars, statVars>>
    /\ \/ /\ pc' = "fork"
          /\ UNCHANGED <<result, last_event>>
       \/ /\ pc' = "exited"
          /\ result' = "err"
          /\ last_event' = [kind |-> "new_failed", interval |-> check_interval]
    /\ UNCHANGED <<filterVars, check_interval, last_check_time, now, remaining,
                   events, done, raw_input, tracker, written, to_master, checks,
                   reads, inputs>>

\* main: Pty::fork in the parent; on Err it reports and calls exit(1)
Fork ==
    /\ pc = "fork"
    /\ UNCHANGED <<relayVars, composeVars, trackerVars, statVars>>
    /\ \/ /\ pc' = "setup"
          /\ UNCHANGED <<result, last_event>>
       \/ /\ pc' = "exited"
          /\ result' = "err"
          /\ last_event' = [kind |-> "fork_failed", interval |-> check_interval]
    /\ UNCHANGED <<filterVars, check_interval, last_check_time, now, remaining,
                   events, done, raw_input, tracker, written, to_master, checks,
                   reads, inputs>>

\* RawInput::setup, epoll_create, epoll_ctl twice
Setup ==
    /\ pc = "setup"
    /\ UNCHANGED <<relayVars, composeVars, trackerVars, statVars>>
    /\ \E raw_ok \in BOOLEAN, epoll_ok \in BOOLEAN :
          IF epoll_ok
          THEN /\ pc' = "check"
               /\ raw_input' = IF raw_ok THEN "raw" ELSE "orig"
               /\ UNCHANGED result
          ELSE /\ pc' = "exited"
               /\ result' = "err"
               /\ raw_input' = IF raw_ok THEN "restored" ELSE "orig"
    /\ UNCHANGED <<filterVars, check_interval, last_check_time, now, remaining,
                   events, done, tracker, written, to_master, checks, reads,
                   inputs, last_event>>

\* Pty::maybe_check; write_ok is whether the write of the flush succeeds
MaybeCheck ==
    /\ pc = "check"
    /\ UNCHANGED <<relayVars, composeVars, trackerVars, statVars>>
    /\ LET next_check_time == NextCheckTime(last_check_time, check_interval, now)
       IN IF next_check_time <= now
          THEN \E T \in UpdateOutcomes, write_ok \in BOOLEAN :
                 LET title == make_window_title(T, Home, filter.state.in_window_title)
                     F1 == filter_set_out_window_title(filter, title)
                 IN /\ write_ok \/ F1.state.buffer # <<>>
                    /\ tracker' = T
                    /\ filter' = IF write_ok THEN clear_buffer(F1) ELSE F1
                    /\ written' = IF write_ok THEN F1.state.buffer ELSE <<>>
                    /\ check_interval' = NextCheckInterval(check_interval)
                    /\ last_check_time' = <<now>>
                    /\ remaining' = check_interval'
                    /\ checks' = Append(checks, [at |-> now, before |-> check_interval,
                                                 after |-> check_interval'])
          ELSE /\ remaining' = next_check_time - now
               /\ UNCHANGED <<tracker, filter, written, check_interval,
                              last_check_time, checks>>
    /\ pc' = "wait"
    /\ UNCHANGED <<fed, calls, stdout, flushes, captures, trace, now, events, done,
                   result, raw_input, to_master, reads, inputs, last_event>>

\* epoll_wait with the timeout remaining: it times out, or returns the ready
\* events after a delay, or fails
Wait ==
    /\ pc = "wait"
    /\ UNCHANGED <<relayVars, composeVars, trackerVars, statVars>>
    /\ now + remaining <= MaxTime
    /\ \/ /\ now' = now + remaining
          /\ events' = <<>>
          /\ pc' = "events"
          /\ UNCHANGED <<result, raw_input>>
       \/ \E d \in Delays, batch \in Batches :
             /\ d <= remaining
             /\ now' = now + d
             /\ events' = batch
             /\ pc' = "events"
             /\ UNCHANGED <<result, raw_input>>
       \/ /\ Return("err")
          /\ UNCHANGED <<now, events>>
    /\ UNCHANGED <<filterVars, check_interval, last_check_time, remaining, done,
                   tracker, written, to_master, checks, reads, inputs, last_event>>

\* the arm for the PTY master: FilteredBuffer::fill, FilteredBuffer::flush;
\* at most maxreads reads return data, each one of chunks
MasterArm(maxreads, chunks) ==
    /\ pc = "events" /\ events # <<>> /\ Head(events) = 0
    /\ UNCHANGED <<relayVars, composeVars, trackerVars, statVars>>
    /\ \/ \E chunk \in chunks, write_ok \in BOOLEAN :
             LET F1 == fill(filter, chunk)
             IN /\ reads < maxreads
                /\ write_ok \/ F1.state.buffer # <<>>
                /\ reads' = reads + 1
                /\ IF write_ok
                   THEN /\ filter' = clear_buffer(F1)
                        /\ written' = F1.state.buffer
                        /\ check_interval' = IntervalAfterRead(TRUE, check_interval)
                        /\ events' = Tail(events)
                        /\ last_event' =
                              [kind |-> IF F1.state.in_window_title
                                             # filter.state.in_window_title
                                        THEN "master_title" ELSE "master_data",
                               interval |-> check_interval]
                        /\ UNCHANGED <<pc, result, raw_input>>
                   ELSE /\ filter' = F1
                        /\ written' = <<>>
                        /\ last_event' = [kind |-> "master_write_failed",
                                          interval |-> check_interval]
                        /\ Return("err")
                        /\ UNCHANGED <<check_interval, events>>
                /\ UNCHANGED done
       \/ /\ done' = TRUE
          /\ events' = Tail(events)
          /\ last_event' = [kind |-> "master_eof", interval |-> check_interval]
          /\ check_interval' = IntervalAfterRead(FALSE, check_interval)
          /\ UNCHANGED <<filter, written, reads, pc, result, raw_input>>
       \/ /\ last_event' = [kind |-> "master_read_failed", interval |-> check_interval]
          /\ Return("err")
          /\ UNCHANGED <<filter, written, check_interval, reads, events, done>>
    /\ UNCHANGED <<fed, calls, stdout, flushes, captures, trace, last_check_time, now,
                   remaining, tracker, to_master, checks, inputs>>

MasterEvent == MasterArm(MaxReads, Chunks)

\* the arm for standard input: Buffer::fill, Buffer::flush to the PTY master
StdinEvent ==
    /\ pc = "events" /\ events # <<>> /\ Head(events) = 1
    /\ UNCHANGED <<relayVars, composeVars, trackerVars, statVars>>
    /\ \/ \E chunk \in StdinChunks, write_ok \in BOOLEAN :
             /\ inputs < MaxInputs
             /\ inputs' = inputs + 1
             /\ IF write_ok
                THEN /\ to_master' = chunk
                     /\ events' = Tail(events)
                     /\ last_event' = [kind |-> "stdin_data", interval |-> check_interval]
                     /\ UNCHANGED <<pc, result, raw_input>>
                ELSE /\ last_event' = [kind |-> "stdin_write_failed",
                                       interval |-> check_interval]
                     /\ Return("err")
                     /\ UNCHANGED <<to_master, events>>
             /\ UNCHANGED done
       \/ /\ done' = TRUE
          /\ events' = Tail(events)
          /\ last_event' = [kind |-> "stdin_eof", interval |-> check_interval]
          /\ UNCHANGED <<to_master, inputs, pc, result, raw_input>>
       \/ /\ last_event' = [kind |-> "stdin_read_failed", interval |-> check_interval]
          /\ Return("err")
          /\ UNCHANGED <<to_master, inputs, events, done>>
    /\ UNCHANGED <<filterVars, check_interval, last_check_time, now, remaining,
                   tracker, written, checks, reads>>

\* the end of the for loop over the ready events, done never looked at
EndBatchNotDone ==
    /\ pc = "events" /\ events = <<>>
    /\ UNCHANGED <<relayVars, composeVars, trackerVars, statVars>>
    /\ pc' = "check"
    /\ UNCHANGED <<filterVars, check_interval, last_check_time, now, remaining,
                   events, done, result, raw_input, tracker, written, to_master,
                   checks, reads, inputs, last_event>>

\* the end of the for loop over the ready events: while !done
EndBatch ==
    /\ pc = "events" /\ events = <<>>
    /\ UNCHANGED <<relayVars, composeVars, trackerVars, statVars>>
    /\ IF done
       THEN Return("ok")
       ELSE pc' = "check" /\ UNCHANGED <<result, raw_input>>
    /\ UNCHANGED <<filterVars, check_interval, last_check_time, now, remaining,
                   events, done, tracker, written, to_master, checks, reads,
                   inputs, last_event>>

NextLoop ==
    \/ PtyNew
    \/ Fork
    \/ Setup
    \/ MaybeCheck
    \/ Wait
    \/ MasterEvent
    \/ StdinEvent
    \/ EndBatch

SpecLoop == Init /\ [][NextLoop]_vars

\* ===================================================================
\* The same loop in a session where nothing fails and only the PTY master
\* has events, whose reads bring titles: checks and title captures in turn.
\* ===================================================================
MaxCaptureReads == 2    \* PTY master reads that return data
MaxCaptureTime == 700   \* no wait ends after this time, ms

\* what one read of the PTY master can return: x, the title "x", the title
\* "ttymon", the title "x" and then the start of a DCS
CaptureChunks ==
    { <<CH_x>>,
      OSC \o ZeroSemi \o <<CH_x, BEL>>,
      OSC \o ZeroSemi \o DefaultTitle \o <<BEL>>,
      OSC \o ZeroSemi \o <<CH_x, BEL>> \o DCS \o <<CH_x>> }

\* the step does not end handle
Running == pc' # "exited"

NextCapture ==
    \/ PtyNew /\ Running
    \/ Fork /\ Running
    \/ Setup /\ Running /\ raw_input' = "raw"
    \/ MaybeCheck
    \/ Wait /\ Running /\ now' <= MaxCaptureTime /\ events' \in {<<>>, <<0>>}
    \/ MasterArm(MaxCaptureReads, CaptureChunks) /\ Running /\ ~done'
    \/ EndBatch

SpecCapture == Init /\ [][NextCapture]_vars

\* ===================================================================
\* The standard input arm, system call by system call: Buffer::fill, then
\* Buffer::flush with write_all, where a write may take only part of what
\* it is given, may be interrupted (EINTR), or may fail.
\* ===================================================================
MaxRelayReads == 2   \* reads of standard input that return data
MaxEintrs == 2       \* writes interrupted by a signal

\* what one read of standard input can return here
RelayChunks == { <<CH_x>>, <<CH_0, CH_x>>, <<ESC, CH_LBRACKET, CH_0>> }

RECURSIVE Flatten(_)
Flatten(chunks) ==
    IF chunks = <<>> THEN <<>> ELSE Head(chunks) \o Flatten(Tail(chunks))

\* the bytes a write takes when it is given the buffer from its start
WriteSliceFromStart(buf, done_count, write_count) ==
    SubSeq(buf, 1, write_count)

\* the first write_count bytes of &buf[written..], the bytes a write takes
WriteSlice(buf, done_count, write_count) ==
    SubSeq(buf, done_count + 1, done_count + write_count)

\* Buffer::fill returning Ok(true), and the entry of write_all
RelayRead ==
    /\ rpc = "read"
    /\ Len(stdin_log) < MaxRelayReads
    /\ \E chunk \in RelayChunks :
          /\ to_child' = to_child \o chunk
          /\ stdin_log' = Append(stdin_log, chunk)
    /\ wa_written' = 0
    /\ rpc' = "write"
    /\ UNCHANGED <<filterVars, handleVars, composeVars, trackerVars, statVars, eintrs, master_log>>

\* Buffer::fill returning Ok(false)
RelayEof ==
    /\ rpc = "read"
    /\ rpc' = "eof"
    /\ UNCHANGED <<filterVars, handleVars, composeVars, trackerVars, statVars, to_child, wa_written, eintrs, stdin_log,
                   master_log>>

\* one write of write_all that takes write_count bytes; with the last byte
\* taken write_all returns and Buffer::flush sets count to 0
RelayWrite ==
    /\ rpc = "write"
    /\ \E write_count \in 1..(Len(to_child) - wa_written) :
          /\ master_log' = master_log \o WriteSlice(to_child, wa_written, write_count)
          /\ IF wa_written + write_count < Len(to_child)
             THEN /\ wa_written' = wa_written + write_count
                  /\ UNCHANGED <<rpc, to_child>>
             ELSE /\ wa_written' = 0
                  /\ to_child' = <<>>
                  /\ rpc' = "read"
    /\ UNCHANGED <<filterVars, handleVars, composeVars, trackerVars, statVars, eintrs, stdin_log>>

\* one write of write_all that fails with EINTR: tried again
RelayEintr ==
    /\ rpc = "write"
    /\ eintrs < MaxEintrs
    /\ eintrs' = eintrs + 1
    /\ UNCHANGED <<filterVars, handleVars, composeVars, trackerVars, statVars, rpc, to_child, wa_written, stdin_log,
                   master_log>>

\* one write of write_all that fails with another error: handle returns it
RelayWriteError ==
    /\ rpc = "write"
    /\ rpc' = "failed"
    /\ UNCHANGED <<filterVars, handleVars, composeVars, trackerVars, statVars, to_child, wa_written, eintrs, stdin_log,
                   master_log>>

NextRelay ==
    \/ RelayRead
    \/ RelayEof
    \/ RelayWrite
    \/ RelayEintr
    \/ RelayWriteError

SpecRelay == Init /\ [][NextRelay]_vars

\* ===================================================================
\* Actions::make_window_title as a function: every combination of tracker
\* outputs, home directory and inbound title below, composed once.
\* ===================================================================
\* /home/u/src, /home/u, /home/user, /tmp, / and the empty path of
\* TerminalState::new
CwdPaths ==
    { EmptyPath,
      AbsPath(<<>>),
      AbsPath(<<<<116, 109, 112>>>>),
      AbsPath(<<<<104, 111, 109, 101>>, <<117>>>>),
      AbsPath(<<<<104, 111, 109, 101>>, <<117>>, <<115, 114, 99>>>>),
      AbsPath(<<<<104, 111, 109, 101>>, <<117, 115, 101, 114>>>>) }

\* /home/u and /home
HomePaths == { Home, AbsPath(<<<<104, 111, 109, 101>>>>) }

\* no container, or the container "dev"; no argv0 read, or "bash"
TrackerOutputs ==
    [ container_info : { <<>>, <<[container_name |-> <<100, 101, 118>>]>> },
      foreground_argv0 : { <<>>, <<98, 97, 115, 104>> },
      foreground_cwd : CwdPaths ]

TitleArgs ==
    [ T : TrackerOutputs, home : HomePaths, in_window_title : {DefaultTitle, <<CH_x>>} ]

InitTitleArgs ==
    /\ InitPty
    /\ InitTracker
    /\ InitNoStat
    /\ title_args \in TitleArgs
    /\ title_out = <<>>

\* Actions::make_window_title on title_args
ComposeTitle ==
    /\ title_out = <<>>
    /\ title_out' = <<make_window_title(title_args.T, title_args.home,
                                        title_args.in_window_title)>>
    /\ UNCHANGED <<filterVars, handleVars, relayVars, trackerVars, statVars, title_args>>

NextCompose == ComposeTitle

SpecCompose == InitTitleArgs /\ [][NextCompose]_vars

\* ===================================================================
\* TerminalState: update() calls over what procfs and podman answer.  The
\* nodes form a chain (every node has at most one child): root[1] is the
\* root Session, root[2] its Group, root[3] the Session under that, ...
\* A node is [key, info, fresh]: key is the pid of a Session and the pgrp
\* of a Group, info the container metadata of a Session (<<>> for None),
\* fresh whether the node was allocated in the last update().
\* ===================================================================
MaxSessions == 3    \* Sessions on the chain
MaxUpdates == 2     \* update() calls

\* the foreground process groups a Session can have, with the argv0 and the
\* cwd procfs shows for each: bash in /home/u/src, vim in /tmp
Pgrps == {10, 11}
Argv0Of(pgrp) == IF pgrp = 10 THEN <<98, 97, 115, 104>> ELSE <<118, 105, 109>>
CwdOf(pgrp) ==
    IF pgrp = 10 THEN AbsPath(<<<<104, 111, 109, 101>>, <<117>>, <<115, 114, 99>>>>)
    ELSE AbsPath(<<<<116, 109, 112>>>>)

\* the argv0 GroupNode::update looks for: /home/otaylor/bin/toolbox
Toolbox ==
    <<47, 104, 111, 109, 101, 47, 111, 116, 97, 121, 108, 111, 114, 47, 98, 105, 110, 47,
      116, 111, 111, 108, 98, 111, 120>>

\* the container names podman knows: dev, box
ContainerNames == <<<<100, 101, 118>>, <<98, 111, 120>>>>

\* what GroupNode::update finds for the d-th Group: <<>> when argv0 is not
\* the toolbox or find_podman_peer fails, else the pid of the peer with
\* its container metadata (<<>> for None).  The chain holds MaxSessions
\* Sessions at most.
PeersAt(d) ==
    IF d < MaxSessions
    THEN { <<>>,
           <<[pid |-> 2 * d,
              info |-> <<[container_name |-> ContainerNames[(d % 2) + 1]]>>]>>,
           <<[pid |-> 2 * d + 1, info |-> <<>>]>> }
    ELSE {<<>>}

\* GroupNode::new
GroupNodeNew(pgrp) == [key |-> pgrp, info |-> <<>>, fresh |-> TRUE]

\* SessionNode::new
SessionNodeNew(pid, container_info) == [key |-> pid, info |-> container_info, fresh |-> TRUE]

\* SessionNode::update that changes the Group it has in place
SessionNode_update_in_place(chain, d, tty_pgrp) ==
    IF tty_pgrp # 0
    THEN IF Len(chain) >= 2 * d
         THEN [chain EXCEPT ![2 * d].key = tty_pgrp]
         ELSE Append(chain, GroupNodeNew(tty_pgrp))
    ELSE SubSeq(chain, 1, 2 * d - 1)

\* SessionNode::update on the d-th Session, tty_pgrp read from procfs
SessionNode_update(chain, d, tty_pgrp) ==
    IF tty_pgrp # 0
    THEN LET changed == IF Len(chain) >= 2 * d
                        THEN tty_pgrp # chain[2 * d].key
                        ELSE TRUE
         IN IF changed
            THEN Append(SubSeq(chain, 1, 2 * d - 1), GroupNodeNew(tty_pgrp))
            ELSE chain
    ELSE SubSeq(chain, 1, 2 * d - 1)

\* GroupNode::update that leaves the Session it has when no peer is found
GroupNode_update_keep(chain, d, peer) ==
    IF peer # <<>>
    THEN LET changed == IF Len(chain) >= 2 * d + 1
                        THEN peer[1].pid # chain[2 * d + 1].key
                        ELSE TRUE
         IN IF changed
            THEN Append(SubSeq(chain, 1, 2 * d), SessionNodeNew(peer[1].pid, peer[1].info))
            ELSE chain
    ELSE chain

\* GroupNode::update on the d-th Group, peer found by find_podman_peer
GroupNode_update(chain, d, peer) ==
    IF peer # <<>>
    THEN LET changed == IF Len(chain) >= 2 * d + 1
                        THEN peer[1].pid # chain[2 * d + 1].key
                        ELSE TRUE
         IN IF changed
            THEN Append(SubSeq(chain, 1, 2 * d), SessionNodeNew(peer[1].pid, peer[1].info))
            ELSE chain
    ELSE SubSeq(chain, 1, 2 * d)

\* container_session that keeps the first Session with metadata
ContainerSessionFirst(container, session) ==
    IF container # <<>> THEN container ELSE session.info

\* container_session after the walk has come to session
ContainerSession(container, session) ==
    IF session.info # <<>> THEN session.info ELSE container

\* the loop of TerminalState::update from the d-th Session on, over every
\* answer of procfs and podman: tty_pgrp is what is read for the Session
\* (0: not readable), peer what is found for its Group.  st is [chain,
\* container, leaf]: the nodes, the metadata of container_session, the
\* place of leaf_group on the chain (0: None)
RECURSIVE Walk(_, _)
Walk(st, d) ==
    LET container == ContainerSession(st.container, st.chain[2 * d - 1])
    IN UNION { LET chain1 == SessionNode_update(st.chain, d, tty_pgrp)
               IN IF Len(chain1) < 2 * d
                  THEN {[chain |-> chain1, container |-> container, leaf |-> st.leaf]}
                  ELSE UNION { LET chain2 == GroupNode_update(chain1, d, peer)
                                   st2 == [chain |-> chain2, container |-> container,
                                           leaf |-> 2 * d]
                               IN IF Len(chain2) < 2 * d + 1 THEN {st2}
                                  ELSE Walk(st2, d + 1)
                               : peer \in PeersAt(d) }
               : tty_pgrp \in {0} \cup Pgrps }

\* Process::argv0 of the Group at place leaf on the chain: a Group whose
\* peer was found runs the toolbox
LeafArgv0(chain, leaf) ==
    IF Len(chain) > leaf THEN Toolbox ELSE Argv0Of(chain[leaf].key)

\* the three outputs, left as they were when no leaf group is found
OutputsKept(w, argv0_ok, cwd_ok, before) ==
    IF w.leaf = 0 THEN before
    ELSE [ container_info |-> w.container,
           foreground_argv0 |-> IF argv0_ok THEN LeafArgv0(w.chain, w.leaf) ELSE <<>>,
           foreground_cwd |-> IF cwd_ok THEN CwdOf(w.chain[w.leaf].key) ELSE EmptyPath ]

\* the three outputs TerminalState::update stores after the walk w;
\* argv0_ok and cwd_ok: whether argv0 and cwd of the leaf group can be read
Outputs(w, argv0_ok, cwd_ok, before) ==
    [ container_info |-> w.container,
      foreground_argv0 |->
          IF w.leaf # 0 /\ argv0_ok THEN LeafArgv0(w.chain, w.leaf) ELSE <<>>,
      foreground_cwd |->
          IF w.leaf # 0 /\ cwd_ok THEN CwdOf(w.chain[w.leaf].key) ELSE EmptyPath ]

\* the nodes as an update() finds them: none allocated in it yet
Old(chain) == [i \in 1..Len(chain) |-> [chain[i] EXCEPT !.fresh = FALSE]]

\* TerminalState::update
Update ==
    /\ updates < MaxUpdates
    /\ \E w \in Walk([chain |-> Old(root), container |-> <<>>, leaf |-> 0], 1) :
          \* proc_ok: whether /proc still has the leaf group's leader
          \E proc_ok \in IF w.leaf # 0 THEN BOOLEAN ELSE {FALSE} :
             /\ root' = w.chain
             /\ tracker' = Outputs(w, proc_ok, proc_ok, tracker)
    /\ last_update' = <<[pgrp |-> IF Len(root) >= 2 THEN root[2].key ELSE 0,
                         child |-> IF Len(root) >= 3 THEN root[3].key ELSE 0,
                         outputs |-> tracker # TerminalStateNew]>>
    /\ updates' = updates + 1
    /\ UNCHANGED <<filterVars, relayVars, composeVars, statVars, procfs, walked, pc, check_interval,
                   last_check_time, now, remaining, events, done, result, raw_input,
                   written, to_master, checks, reads, inputs, last_event>>

NextTracker == Update

SpecTracker == Init /\ [][NextTracker]_vars

\* ===================================================================
\* TerminalState::update over a snapshot of /proc and podman: what every
\* process and process group answers while one update() runs.
\* ===================================================================
MaxSnapshots == 2   \* SpecProcfs: update() calls

\* the pids a Session can have: the root and one contained process
Pids == {RootPid, RootPid + 1}

\* the processes of a snapshot: the Sessions' and the Groups' leaders
NumProcesses == Cardinality(Pids) + Cardinality(Pgrps)

\* what find_podman_peer gives for a Group of the toolbox: <<>> for an
\* error or no peer, else the contained pid with the metadata the
\* container inspector gave (<<>>: none)
ResolverAnswers ==
    {<<>>} \cup {<<[pid |-> RootPid + 1, info |-> i]>> :
                    i \in {<<>>, <<[container_name |-> ContainerNames[1]]>>}}

\* what a Group's leader answers: argv0 fails ("err"), is another program
\* ("other") or is the toolbox, and then what the resolver gives
GroupAnswers ==
    {[argv0 |-> "err", peer |-> <<>>], [argv0 |-> "other", peer |-> <<>>]}
    \cup {[argv0 |-> "toolbox", peer |-> p] : p \in ResolverAnswers}

\* a snapshot: tty the tty_pgrp read for each pid (0: the read fails),
\* group the answers for each process group
Snapshots == [tty : [Pids -> {0} \cup Pgrps], group : [Pgrps -> GroupAnswers]]

\* child_pid of GroupNode::update: the resolver is asked only when argv0 is
\* the toolbox, -1 (<<>>) otherwise
FindPeer(answer) == IF answer.argv0 = "toolbox" THEN answer.peer ELSE <<>>

\* the loop of TerminalState::update from the d-th Session on, in the
\* snapshot world.  st is [chain, container, leaf, cut]; cut: the loop has
\* come to one more Session with more nodes on the chain than there are
\* processes, and is left there
RECURSIVE WalkIn(_, _, _)
WalkIn(st, d, world) ==
    LET container == ContainerSession(st.container, st.chain[2 * d - 1])
        chain1 == SessionNode_update(st.chain, d, world.tty[st.chain[2 * d - 1].key])
    IN IF Len(chain1) < 2 * d
       THEN [chain |-> chain1, container |-> container, leaf |-> st.leaf, cut |-> FALSE]
       ELSE LET chain2 == GroupNode_update(chain1, d,
                                           FindPeer(world.group[chain1[2 * d].key]))
                st2 == [chain |-> chain2, container |-> container, leaf |-> 2 * d,
                        cut |-> FALSE]
            IN IF Len(chain2) < 2 * d + 1 THEN st2
               ELSE IF Len(chain2) > NumProcesses THEN [st2 EXCEPT !.cut = TRUE]
               ELSE WalkIn(st2, d + 1, world)

\* the snapshot with only the answers that were read for the nodes of chain
ReadIn(world, chain) ==
    LET pids == {chain[i].key : i \in {j \in 1..Len(chain) : j % 2 = 1}}
        pgrps == {chain[i].key : i \in {j \in 1..Len(chain) : j % 2 = 0}}
    IN [tty |-> [p \in Pids |-> IF p \in pids THEN world.tty[p] ELSE 0],
        group |-> [g \in Pgrps |-> IF g \in pgrps THEN world.group[g]
                                   ELSE [argv0 |-> "err", peer |-> <<>>]]]

\* the three outputs TerminalState::update stores after the walk w in the
\* snapshot world
OutputsIn(w, world) ==
    LET answer == world.group[w.chain[w.leaf].key]
    IN [ container_info |-> w.container,
         foreground_argv0 |->
             IF w.leaf = 0 \/ answer.argv0 = "err" THEN <<>>
             ELSE IF answer.argv0 = "toolbox" THEN Toolbox
             ELSE Argv0Of(w.chain[w.leaf].key),
         foreground_cwd |->
             IF w.leaf = 0 \/ answer.argv0 = "err" THEN EmptyPath
             ELSE CwdOf(w.chain[w.leaf].key) ]

\* TerminalState::update in one snapshot; an update() whose loop was cut
\* has not returned, and no other follows it
UpdateIn ==
    /\ updates < MaxSnapshots
    /\ \A i \in 1..Len(walked) : ~walked[i].cut
    /\ \E world \in Snapshots :
          LET w == WalkIn([chain |-> Old(root), container |-> <<>>, leaf |-> 0,
                           cut |-> FALSE], 1, world)
          IN /\ world = ReadIn(world, w.chain)
             /\ root' = w.chain
             /\ tracker' = IF w.cut THEN tracker ELSE OutputsIn(w, world)
             /\ procfs' = <<world>>
             /\ walked' = <<[nodes |-> Len(w.chain), cut |-> w.cut]>>
    /\ last_update' = <<[pgrp |-> IF Len(root) >= 2 THEN root[2].key ELSE 0,
                         child |-> IF Len(root) >= 3 THEN root[3].key ELSE 0,
                         outputs |-> tracker # TerminalStateNew]>>
    /\ updates' = updates + 1
    /\ UNCHANGED <<filterVars, relayVars, composeVars, statVars, pc, check_interval,
                   last_check_time, now, remaining, events, done, result, raw_input,
                   written, to_master, checks, reads, inputs, last_event>>

NextProcfs == UpdateIn

SpecProcfs == Init /\ [][NextProcfs]_vars

\* ---------------------------------------------- StatParser (process.rs)
SP == 32
LPAREN == 40
RPAREN == 41
CH_1 == CH_0 + 1
CH_a == 97
CH_S == 83

NOT_FOUND == 0 - 1

MaxStatLen == 4     \* SpecStat: every start of a stat file of up to this many bytes

\* i32::MAX, the largest value str::parse::<i32> accepts
I32Max == 2147483647

\* the first i in 1..len with content[i - 1] = ' ' and content[i] = '(',
\* in the indices of the source (from 0)
OpenParen(content) ==
    LET hits == {i \in 1..(Len(content) - 1) :
                    content[i] = SP /\ content[i + 1] = LPAREN}
    IN IF hits = {} THEN NOT_FOUND
       ELSE CHOOSE i \in hits : \A j \in hits : i <= j

\* the last i in 0..len-1 with content[i] = ')' and content[i + 1] = ' ',
\* in the indices of the source (from 0); the content is not empty
CloseParen(content) ==
    LET hits == {i \in 0..(Len(content) - 2) :
                    content[i + 1] = RPAREN /\ content[i + 2] = SP}
    IN IF hits = {} THEN NOT_FOUND
       ELSE CHOOSE i \in hits : \A j \in hits : i >= j

\* slice::split on 0x20: the pieces between the spaces, one more than spaces
RECURSIVE SplitSpaces(_)
SplitSpaces(s) ==
    LET at == {i \in 1..Len(s) : s[i] = SP}
    IN IF at = {} THEN <<s>>
       ELSE LET i == CHOOSE i \in at : \A j \in at : i <= j
            IN <<SubSeq(s, 1, i - 1)>> \o SplitSpaces(SubSeq(s, i + 1, Len(s)))

\* the slice content[from..to] of the source; <<>> of it when from > to or
\* to > len, where the source panics
Slice(content, from, to) ==
    IF from > to \/ to > Len(content) THEN <<>>
    ELSE <<SubSeq(content, from + 1, to)>>

\* StatParser::parse: [kind, fields], kind "ok" with the fields, "err", or
\* "panic". With an empty content, len() - 1 overflows: a build with overflow
\* checks panics there, a build without them indexes content[usize::MAX - 1]
\* and panics there.
StatParser_parse(content) ==
    IF content = <<>> THEN [kind |-> "panic", fields |-> <<>>]
    ELSE LET open_paren == OpenParen(content)
             close_paren == CloseParen(content)
         IN IF open_paren # NOT_FOUND /\ close_paren # NOT_FOUND
            THEN LET pid == Slice(content, 0, open_paren - 1)
                     comm == Slice(content, open_paren + 1, close_paren)
                     rest == Slice(content, close_paren + 2, Len(content))
                 IN IF pid = <<>> \/ comm = <<>> \/ rest = <<>>
                    THEN [kind |-> "panic", fields |-> <<>>]
                    ELSE [kind |-> "ok",
                          fields |-> <<pid[1], comm[1]>> \o SplitSpaces(rest[1])]
            ELSE [kind |-> "err", fields |-> <<>>]

\* str::parse::<i32> on a field: <<the value>>, or <<>> for an error; the
\* fields here hold no sign
RECURSIVE DecimalValue(_)
DecimalValue(s) ==
    IF s = <<>> THEN 0
    ELSE 10 * DecimalValue(SubSeq(s, 1, Len(s) - 1)) + (s[Len(s)] - CH_0)

ParseI32(s) ==
    IF s = <<>> \/ \E i \in 1..Len(s) : s[i] < CH_0 \/ s[i] > CH_0 + 9 THEN <<>>
    ELSE IF DecimalValue(s) > I32Max THEN <<>>
    ELSE <<DecimalValue(s)>>

\* Process::get_stat_field after the file was read: <<the value>>, <<>> for
\* an error, or "panic"
get_stat_field(content, index) ==
    LET parsed == StatParser_parse(content)
    IN IF parsed.kind = "panic" THEN "panic"
       ELSE IF parsed.kind = "err" THEN <<>>
       ELSE IF Len(parsed.fields) > index THEN ParseI32(parsed.fields[index + 1])
       ELSE <<>>

\* the bytes a stat file is made of here
StatBytes == {SP, LPAREN, RPAREN, CH_1, CH_a}

\* how a stat file goes on after its start: not at all, or with the end of
\* the command name, the state and the numeric fields
StatTails == {<<>>, <<RPAREN, SP, CH_S, SP, CH_0 + 3, SP, CH_0 + 4, SP, CH_0 + 5, SP,
                      CH_0 + 6, SP, CH_0 + 7, SP, CH_0 + 8>>}

StatStarts == UNION {[1..n -> StatBytes] : n \in 0..MaxStatLen}

StatContents == {h \o t : h \in StatStarts, t \in StatTails}

InitStat ==
    /\ InitPty
    /\ InitTracker
    /\ title_args = [T |-> TerminalStateNew, home |-> Home, in_window_title |-> DefaultTitle]
    /\ title_out = <<>>
    /\ stat_content \in StatContents
    /\ stat_result = <<>>

\* StatParser::parse on stat_content, and parent, process_group and
\* tty_process_group on it
ParseStat ==
    /\ stat_result = <<>>
    /\ stat_result' = <<[parsed |-> StatParser_parse(stat_content),
                         parent |-> get_stat_field(stat_content, 3),
                         process_group |-> get_stat_field(stat_content, 4),
                         tty_process_group |-> get_stat_field(stat_content, 7)]>>
    /\ UNCHANGED <<filterVars, handleVars, relayVars, composeVars, trackerVars, stat_content>>

NextStat == ParseStat

SpecStat == InitStat /\ [][NextStat]_vars

\* ===================================================================
\* Properties
\* ===================================================================
\* the parser state and the output length after the first k bytes fed
StateAt(k) == IF k = 0 THEN "Ground" ELSE trace[k].state
OutLenAt(k) == IF k = 0 THEN 0 ELSE trace[k].outlen

\* what has been put out since the first k bytes were fed
Appended(k) == SubSeq(Output, OutLenAt(k) + 1, Len(Output))

\* the bytes fed after the first k
FedFrom(k) == SubSeq(fed, k + 1, Len(fed))

\* text of an OSC string: no control byte
IsText(T) == \A i \in 1..Len(T) : T[i] >= 32
NoSemi(T) == \A i \in 1..Len(T) : T[i] # CH_SEMI

\* the bytes fed after the first k are one whole OSC string, begun in the
\* ground state, with the given terminator; OscBody is what lies between
IsOscFrom(k, term) ==
    /\ StateAt(k) = "Ground"
    /\ Len(fed) >= k + 2 + Len(term)
    /\ SubSeq(fed, k + 1, k + 2) = OSC
    /\ SubSeq(fed, Len(fed) - Len(term) + 1, Len(fed)) = term
    /\ IsText(SubSeq(fed, k + 3, Len(fed) - Len(term)))
OscBody(k, term) == SubSeq(fed, k + 3, Len(fed) - Len(term))

\* an OSC body "0;T"
IsZeroBody(body) == Len(body) >= 2 /\ SubSeq(body, 1, 2) = ZeroSemi
TitleOf(body) == SubSeq(body, 3, Len(body))

\* C1 (as claimed): an input that is parsed back to the ground state with no
\* OSC captured as a title is put out byte for byte.
C1_Transparent ==
    (calls = <<>> /\ captures = 0 /\ filter.parser.state = "Ground") => Output = fed

C3_TitleSt ==
    \A k \in 0..Len(fed) :
       (/\ IsOscFrom(k, ST)
        /\ IsZeroBody(OscBody(k, ST))
        /\ NoSemi(TitleOf(OscBody(k, ST))))
       => /\ Appended(k) = <<>>
          /\ filter.state.in_window_title = TitleOf(OscBody(k, ST))

\* C4 (as claimed): an OSC string that is not a title capture is put out
\* verbatim, ending in the one terminator the input had.
C4_OscVerbatim ==
    \A k \in 0..Len(fed) : \A term \in {<<BEL>>, ST} :
       (/\ calls = <<>>
        /\ IsOscFrom(k, term)
        /\ ~(IsZeroBody(OscBody(k, term)) /\ NoSemi(TitleOf(OscBody(k, term)))))
       => Appended(k) = FedFrom(k)

\* ESC ] 0 ; t ESC \
TitleSequence(t) == OSC \o ZeroSemi \o t \o ST

\* this step is a set_out_window_title call; LastCall is the call made
IsCall == Len(calls') = Len(calls) + 1
LastCall == calls[Len(calls)]

\* C5: a set_out_window_title(t) call made while no DCS is in progress, with t
\* not the current outbound title, appends exactly ESC ] 0 ; t ESC \ to the
\* output buffer and changes nothing else but the outbound title.
C5_TitleAppended ==
    [][(IsCall /\ ~filter.state.in_dcs /\ LastCall'.title # filter.state.out_window_title)
       => /\ filter'.state.buffer = filter.state.buffer \o TitleSequence(LastCall'.title)
          /\ filter'.state.out_window_title = LastCall'.title
          /\ filter' = [filter EXCEPT !.state.buffer = filter'.state.buffer,
                                      !.state.out_window_title = LastCall'.title]]_vars

\* the title call came right after an inbound title was captured with
\* nothing put out, and its title sequence is all the output there is
C5_Witness ==
    /\ fed = OscHelloBel
    /\ captures = 1
    /\ Len(calls) = 1
    /\ LastCall.at = Len(fed)
    /\ ~LastCall.in_dcs
    /\ Output = TitleSequence(LastCall.title)

\* C6: a set_out_window_title call with the title of the call before it
\* changes nothing of the filter, in a DCS or out of one.
C6_SameTitleNoOp ==
    [][(IsCall /\ calls # <<>> /\ LastCall'.title = LastCall.title)
       => filter' = filter]_vars

\* two calls in a row with one title, made inside a DCS
C6_Witness ==
    /\ Len(calls) = 2
    /\ calls[1].title = calls[2].title
    /\ calls[1].at = calls[2].at
    /\ calls[1].in_dcs /\ calls[2].in_dcs

\* two calls in a row with one title, made outside a DCS: one title sequence
C6_WitnessGround ==
    /\ Len(calls) = 2
    /\ calls[1].title = calls[2].title
    /\ fed = <<>>
    /\ Output = TitleSequence(calls[1].title)

\* the input is one whole DCS: ESC P, a final byte, payload, ESC \
IsWholeDcs(input) ==
    /\ Len(input) >= 5
    /\ SubSeq(input, 1, 2) = DCS
    /\ input[3] \in 64..126
    /\ SubSeq(input, Len(input) - 1, Len(input)) = ST
    /\ \A i \in 4..(Len(input) - 2) : input[i] \in 32..126

\* C7 (as claimed): with one title call made between the hook and the unhook
\* of a DCS, the output for the whole DCS is the DCS itself, then the title
\* sequence, and nothing else.
C7_DeferredTitleExact ==
    (/\ IsWholeDcs(fed)
     /\ Len(calls) = 1
     /\ calls[1].in_dcs)
    => Output = fed \o TitleSequence(calls[1].title)

\* the positions of the output where a DCS begins
DcsStarts(out) == {i \in 1..(Len(out) - 1) : out[i] = ESC /\ out[i + 1] = CH_P}

\* C8: in all the output, what follows the bytes of a DCS hook holds no ESC
\* until the ESC \ that ends the DCS: no title sequence lies inside a DCS.
C8_NoTitleInsideDcs ==
    \A i \in DcsStarts(Output) :
       \A j \in (i + 2)..Len(Output) :
          (Output[j] = ESC /\ \A m \in (i + 2)..(j - 1) : Output[m] # ESC)
          => (j < Len(Output) /\ Output[j + 1] = CH_BACKSLASH)

\* a title set inside a DCS, and put out after it, with a flush in between
C8_Witness ==
    /\ Len(calls) = 1
    /\ calls[1].in_dcs
    /\ flushes = 1
    /\ stdout # <<>>
    /\ ~filter.state.in_dcs
    /\ \E i \in 1..Len(Output) :
          SubSeq(Output, i, i + Len(ST \o TitleSequence(calls[1].title)) - 1)
             = ST \o TitleSequence(calls[1].title)

\* ------------------------------------------------------------ the timer
\* the intervals successive check steps set when no PTY data arrives, ms
IdleIntervals == <<500, 2500, 12500, 60000, 60000>>

\* C9: check_interval is always between 100 ms and 60 s; every check step
\* sets it to min(60 s, 5 x its value before the check); and as long as no
\* read of the PTY master has returned data, the values after successive
\* check steps are 500, 2500, 12500, 60000, 60000 ms, the checks that many
\* milliseconds apart.
C9_CheckInterval ==
    /\ check_interval >= MIN_CHECK_INTERVAL
    /\ check_interval <= MAX_CHECK_INTERVAL
    /\ \A i \in 1..Len(checks) :
          /\ checks[i].after = Min(60000, 5 * checks[i].before)
          /\ checks[i].after >= 100 /\ checks[i].after <= 60000
    /\ reads = 0 =>
          \A i \in 1..Len(checks) :
             /\ i <= Len(IdleIntervals) => checks[i].after = IdleIntervals[i]
             /\ i > Len(IdleIntervals) => checks[i].after = 60000
             /\ i > 1 => checks[i].at - checks[i - 1].at = checks[i - 1].after

\* five check steps of a session with no PTY data, the last two at the cap
C9_Witness ==
    /\ reads = 0
    /\ Len(checks) = 5
    /\ checks[4].after = 60000
    /\ checks[5].before = 60000
    /\ checks[5].after = 60000
    /\ check_interval = 60000

IdleCheckTimes == <<0, 500, 3000, 15500, 75500>>

\* the check times of the claim: about 0.1, 0.5, 2.5 and 12.5 s
ClaimedCheckTimes == <<100, 500, 2500, 12500>>
About(t, claimed) == t - claimed <= 100 /\ claimed - t <= 100

\* C11 (as claimed): with no PTY data, the first four check steps run at
\* about 0.1, 0.5, 2.5 and 12.5 s, all four within the first 15 s, and no
\* fifth one does.
C11_FourChecksIn15s ==
    reads = 0 =>
       \A i \in 1..Len(checks) :
          /\ i <= 4 => (checks[i].at <= 15000 /\ About(checks[i].at, ClaimedCheckTimes[i]))
          /\ i > 4 => checks[i].at > 15000

\* C11 (what the code does): with no PTY data the check steps run at 0, 0.5, 3.0, 15.5
\* and 75.5 s after the loop was entered, each as soon as its time has come:
\* three check steps in the first 15 s, the fourth half a second later.
C11_IdleCheckTimes ==
    reads = 0 =>
       /\ \A i \in 1..Len(checks) :
             i <= Len(IdleCheckTimes) => checks[i].at = IdleCheckTimes[i]
       /\ Cardinality({i \in 1..Len(checks) : checks[i].at <= 15000}) <= 3
       /\ pc = "wait" =>
             \A i \in 1..Len(IdleCheckTimes) :
                IdleCheckTimes[i] <= now => Len(checks) >= i

\* an idle session just after its fourth check, 15.5 s in
C11_Witness ==
    /\ reads = 0
    /\ inputs = 0
    /\ pc = "wait"
    /\ now = 15500
    /\ Len(checks) = 4
    /\ checks[3].at = 3000

\* ------------------------------------------------------- the end of the loop
\* the events that end handle with an error
FailureKinds ==
    {"master_read_failed", "master_write_failed", "stdin_read_failed",
     "stdin_write_failed"}

\* C12 (as claimed): once a read of the PTY master or of standard input has
\* returned no byte, handle returns successfully.
C12_EofReturnsOk ==
    (done /\ pc = "exited") => result = "ok"

\* C12 (amended): once a read of either endpoint has returned no byte (done),
\* there is no further check step and no further wait: only the rest of the
\* batch of ready events is handled, and handle then returns; it returns Ok
\* unless handling one of those events failed.  handle returns Ok only after
\* such a read, and returns at all only after such a read or an error.
C12_EofEndsLoop ==
    /\ done => pc \in {"events", "exited"}
    /\ (done /\ pc = "exited" /\ result = "err") => last_event.kind \in FailureKinds
    /\ result = "ok" <=> (pc = "exited" /\ done /\ last_event.kind \notin FailureKinds)
    /\ pc = "exited" => (done \/ result = "err")

\* the PTY master read no byte, the standard input event of the same batch
\* was still handled, and handle returned Ok
C12_Witness ==
    /\ pc = "exited"
    /\ result = "ok"
    /\ done
    /\ last_event.kind = "stdin_data"
    /\ inputs = 1

\* ------------------------------------------------------------- raw mode
\* C13: once RawInput::setup has installed raw mode, the terminal stays raw
\* as long as handle runs, and every return of handle (end-of-file, failed
\* epoll setup or wait, failed read, failed write) drops the RawInput, which
\* sets the original attributes again: once, in the step that returns.
C13_RawModeRestored ==
    /\ [](/\ pc = "exited" => raw_input \in {"orig", "restored"}
          /\ pc \in {"check", "wait", "events"} => raw_input \in {"orig", "raw"}
          /\ (pc = "exited" /\ result = "running") => FALSE)
    /\ [][/\ (raw_input' = "raw" /\ raw_input # "raw") => (pc = "setup" /\ raw_input = "orig")
          /\ (raw_input = "raw" /\ pc' = "exited") => raw_input' = "restored"
          /\ (raw_input' = "restored" /\ raw_input # "restored")
                => /\ raw_input = "raw" \/ pc = "setup"
                   /\ pc # "exited" /\ pc' = "exited"
          /\ raw_input = "restored" => raw_input' = "restored"]_vars

\* raw mode was installed, a write to standard output failed, and handle
\* returned the error with the original attributes set again
C13_Witness ==
    /\ pc = "exited"
    /\ result = "err"
    /\ raw_input = "restored"
    /\ last_event.kind = "master_write_failed"

\* ---------------------------------------------------- standard input relay
\* C14: whatever the writes take and however often they are interrupted, the
\* bytes written to the PTY master are a prefix of the bytes read from
\* standard input, in order; before every read, and at end-of-file, they are
\* all the bytes read; in the middle of a flush they are all but the part of
\* the last chunk not yet taken.
C14_RelayInOrder ==
    /\ IsPrefix(master_log, Flatten(stdin_log))
    /\ rpc \in {"read", "eof"} => (master_log = Flatten(stdin_log) /\ to_child = <<>>)
    /\ rpc \in {"write", "failed"} =>
          /\ stdin_log # <<>>
          /\ to_child = stdin_log[Len(stdin_log)]
          /\ wa_written < Len(to_child)
          /\ Len(master_log) = Len(Flatten(stdin_log)) - Len(to_child) + wa_written

\* two chunks relayed whole, the second of three bytes, with an interrupted
\* write on the way
C14_Witness ==
    /\ rpc = "read"
    /\ Len(stdin_log) = 2
    /\ Len(stdin_log[2]) = 3
    /\ eintrs >= 1
    /\ master_log = stdin_log[1] \o stdin_log[2]

\* ------------------------------------------------------ the composed title
\* "<container_name> - " when there is container metadata, nothing otherwise
ContainerPart(T) ==
    IF T.container_info # <<>> THEN T.container_info[1].container_name \o Separator
    ELSE <<>>

\* the path with the home directory at its start replaced by ~
TildeFor(p, home) ==
    <<126>> \o SubSeq(PathString(p), Len(PathString(home)) + 1, Len(PathString(p)))

\* the cwd part of the claim: ~ for home when home is a prefix of the cwd by
\* whole components, the path unchanged otherwise
ClaimedCwd(p, home) ==
    IF HasPrefix(p, home) THEN TildeFor(p, home) ELSE PathString(p)

\* C15 (as claimed): the title is "[container - ]cwd - argv0 - inbound_title",
\* with "<container_name> - " in front exactly when there is container
\* metadata, and the cwd shown with home replaced by ~ exactly when home is
\* a prefix of it by whole components, unchanged otherwise.
C15_ComposedTitle ==
    title_out # <<>> =>
       title_out[1] = ContainerPart(title_args.T)
                         \o ClaimedCwd(title_args.T.foreground_cwd, title_args.home)
                         \o Separator \o title_args.T.foreground_argv0
                         \o Separator \o title_args.in_window_title

\* C15 (what the code does): as claimed, but a cwd that is the home
\* directory itself is shown as "~/", not "~".
C15_ComposedTitleSlash ==
    title_out # <<>> =>
       LET cwd == title_args.T.foreground_cwd
           shown == IF cwd = title_args.home THEN <<126, 47>>
                    ELSE ClaimedCwd(cwd, title_args.home)
       IN title_out[1] = ContainerPart(title_args.T) \o shown
                            \o Separator \o title_args.T.foreground_argv0
                            \o Separator \o title_args.in_window_title

\* home /home/u, cwd /home/u/src, container "dev": "dev - ~/src - bash - x"
C15_Witness ==
    /\ title_args.home = Home
    /\ PathString(title_args.T.foreground_cwd) = <<47, 104, 111, 109, 101, 47, 117, 47, 115, 114, 99>>
    /\ title_out = << <<100, 101, 118, 32, 45, 32, 126, 47, 115, 114, 99, 32, 45, 32,
                        98, 97, 115, 104, 32, 45, 32, 120>> >>

\* -------------------------------------------------------------------
\* C16: after an update() in which the root Session has no readable
\* tty_pgrp (the chain is the root Session alone), container_info is None
\* and foreground_argv0 and foreground_cwd are empty, whatever they were
\* before.
C16_NoTtyClearsOutputs ==
    (last_update # <<>> /\ Len(root) = 1) => tracker = TerminalStateNew

\* an update() found no tty_pgrp for the root Session after an earlier one
\* had found a foreground group and set outputs
C16_Witness ==
    /\ last_update # <<>>
    /\ last_update[1].pgrp # 0
    /\ last_update[1].outputs
    /\ Len(root) = 1
    /\ tracker = TerminalStateNew

\* SessionNode::update on the d-th Session of chain, as C17 has it: with
\* the tty_pgrp its Group has, nothing changes; with another, the Group
\* and all under it give way to a new Group with no child
SessionUpdateReplaces(chain, d) ==
    /\ SessionNode_update(chain, d, chain[2 * d].key) = chain
    /\ \A tty_pgrp \in Pgrps \ {chain[2 * d].key} :
          SessionNode_update(chain, d, tty_pgrp) =
              Append(SubSeq(chain, 1, 2 * d - 1), GroupNodeNew(tty_pgrp))

\* one update() seen from the d-th Session, kept from before with a Group
\* before and after
GroupOutcome(d) ==
    (/\ Len(root) >= 2 * d
     /\ Len(root') >= 2 * d
     /\ ~root'[2 * d - 1].fresh)
    => IF root'[2 * d].key # root[2 * d].key
       THEN /\ root'[2 * d].fresh
            /\ Len(root') > 2 * d => root'[2 * d + 1].fresh
            /\ Len(root') <= 2 * d + 1 =>
                  /\ tracker'.foreground_argv0 \in {<<>>, LeafArgv0(root', 2 * d)}
                  /\ tracker'.foreground_cwd \in {EmptyPath, CwdOf(root'[2 * d].key)}
       ELSE /\ ~root'[2 * d].fresh
            /\ (/\ Len(root) > 2 * d
                /\ Len(root') > 2 * d
                /\ root'[2 * d + 1].key = root[2 * d + 1].key)
               => /\ ~root'[2 * d + 1].fresh
                  /\ root'[2 * d + 1].info = root[2 * d + 1].info

WithMetadata(chain) == { i \in 1..Len(chain) : i % 2 = 1 /\ chain[i].info # <<>> }

\* the metadata of the Session nearest the leaf that carries any
DeepestMetadata(chain) ==
    IF WithMetadata(chain) = {} THEN <<>>
    ELSE chain[CHOOSE i \in WithMetadata(chain) :
                   \A j \in WithMetadata(chain) : j <= i].info

\* C18: after every update(), container_info is the metadata of the
\* deepest Session on the chain that carries metadata, None when no
\* Session carries any.
C18_DeepestContainer ==
    last_update # <<>> => tracker.container_info = DeepestMetadata(root)

\* two Sessions on the chain carry different metadata, and container_info
\* is that of the deeper one
C18_Witness ==
    /\ last_update # <<>>
    /\ \E i, j \in WithMetadata(root) : i < j /\ root[i].info # root[j].info
    /\ tracker.container_info = DeepestMetadata(root)
    /\ tracker.container_info # <<>>

\* ---------------------------------------------------------- setup failures
\* C19: a failure of Pty::new, of fork or of RawInput::setup ends the
\* program with an error before the loop is entered: no check step, no
\* wait, no read.
C19_SetupFailureFatal ==
    /\ last_event.kind \in {"new_failed", "fork_failed"}
          => (pc = "exited" /\ result = "err" /\ checks = <<>>)
    /\ (pc \notin {"new", "fork", "setup"} /\ raw_input = "orig")
          => (pc = "exited" /\ result = "err" /\ checks = <<>> /\ reads = 0 /\ inputs = 0)

\* C19 (what the code does): a failure of Pty::new or of fork ends the
\* program with an error before Pty::handle is called; after a failed
\* RawInput::setup the terminal is never put in raw mode and never
\* restored, whatever handle goes on to do.
C19_NewOrForkFailureFatal ==
    /\ last_event.kind \in {"new_failed", "fork_failed"}
          => (pc = "exited" /\ result = "err" /\ checks = <<>> /\ raw_input = "orig")
    /\ pc \in {"new", "fork", "setup"} => raw_input = "orig"

\* RawInput::setup failed, and the loop has made a check and read bytes of
\* the PTY master all the same
C19_LoopAfterFailedSetup ==
    /\ raw_input = "orig"
    /\ pc = "events"
    /\ checks # <<>>
    /\ reads > 0

\* -------------------------------------------------------------- I/O errors
\* the write of the filter output in a check step has failed: every other
\* step of the loop leaves the filter buffer empty or returns, so bytes in
\* it, once a check was made, are bytes that write did not take
CheckWriteFailed == checks # <<>> /\ filter.state.buffer # <<>>

\* C20: a failed read or write on the PTY master, standard input or
\* standard output ends handle with the error, the write of the filter
\* output in the check step included.
C20_IoErrorsFatal ==
    /\ last_event.kind \in FailureKinds => (pc = "exited" /\ result = "err")
    /\ CheckWriteFailed => (pc = "exited" /\ result = "err")

\* C20 (what the code does): a failed read or write in an event arm ends
\* handle with the error.
C20_EventErrorsFatal ==
    last_event.kind \in FailureKinds => (pc = "exited" /\ result = "err")

\* the write of a title in a check step failed; the title is still in the
\* filter buffer and the loop waits for the next event
C20_LoopAfterFailedFlush ==
    /\ pc = "wait"
    /\ CheckWriteFailed
    /\ written = <<>>

\* ------------------------------------------------- the pending title flag
\* how often sub occurs in seq
CountOcc(seq, sub) ==
    Cardinality({i \in 1..(Len(seq) - Len(sub) + 1) :
                    SubSeq(seq, i, i + Len(sub) - 1) = sub})

\* the set_out_window_title calls that changed the title to t
ChangesTo(t) == {k \in 1..Len(calls) : calls[k].title = t /\ calls[k].changed}

\* C22: the unhook that puts out a deferred title clears the pending flag,
\* so each title change is put out once at most: the output holds no more
\* title sequences for a title than calls that changed the title to it.
C22_DeferredTitleOnce ==
    \A t \in Titles : CountOcc(Output, TitleSequence(t)) <= Cardinality(ChangesTo(t))

\* a title was set inside a DCS, the DCS has ended and the title was put
\* out after it, and the flag is still set
C22_PendingAfterUnhook ==
    /\ Len(calls) = 1
    /\ calls[1].in_dcs
    /\ ~filter.state.in_dcs
    /\ CountOcc(Output, TitleSequence(calls[1].title)) = 1
    /\ filter.state.out_window_title_pending

\* C23: out_window_title_pending is set only while in_dcs is set and a
\* title asked for by set_out_window_title has not been put out yet.
C23_PendingOnlyInDcs ==
    filter.state.out_window_title_pending
    => /\ filter.state.in_dcs
       /\ \E t \in Titles : CountOcc(Output, TitleSequence(t)) < Cardinality(ChangesTo(t))

\* C23 (what the code does): the flag is set only after a call made inside
\* a DCS, and from then on for good.
C23_PendingAfterDeferredCall ==
    filter.state.out_window_title_pending
    <=> \E k \in 1..Len(calls) : calls[k].in_dcs /\ calls[k].changed

\* ------------------------------------------------------- the title capture
\* body cut at every ';'
RECURSIVE SplitSemi(_)
SplitSemi(body) ==
    IF \A i \in 1..Len(body) : body[i] # CH_SEMI THEN <<body>>
    ELSE LET i == CHOOSE j \in 1..Len(body) :
                      body[j] = CH_SEMI /\ \A m \in 1..(j - 1) : body[m] # CH_SEMI
         IN <<SubSeq(body, 1, i - 1)>> \o SplitSemi(SubSeq(body, i + 1, Len(body)))

\* the inbound title after the first k bytes fed
TitleAt(k) == fill(FilterNew, SubSeq(fed, 1, k)).state.in_window_title

\* what the filter writes for an OSC string it does not capture: the
\* string, ended as osc_dispatch ends it
Reemitted(body, term) == OSC \o body \o (IF term = <<BEL>> THEN <<BEL>> ELSE ST)

\* C24: when an OSC string ends (at its BEL, or at the ESC of its ESC \),
\* it is captured exactly when it has two parameters and the first is "0":
\* nothing is put out for it, and the inbound title becomes the second
\* parameter if that is valid UTF-8 and stays as it was if not.  Every
\* other OSC string, "0" alone and "0;a;b" included, is put out again and
\* the inbound title stays as it was.
C24_OscCapture ==
    \A k \in 0..Len(fed) : \A term \in {<<BEL>>, <<ESC>>} :
       IsOscFrom(k, term)
       => LET body == OscBody(k, term)
              params == SplitSemi(body)
          IN IF Len(params) = 2 /\ params[1] = Zero
             THEN /\ Appended(k) = <<>>
                  /\ filter.state.in_window_title =
                        IF ValidUtf8(params[2]) THEN params[2] ELSE TitleAt(k)
             ELSE /\ Appended(k) = Reemitted(body, term)
                  /\ filter.state.in_window_title = TitleAt(k)

\* ESC ] 0 ; x ; x BEL has come out again and the title is unchanged
C24_Witness ==
    /\ fed = OscSemiBel
    /\ Output = OscSemiBel
    /\ filter.state.in_window_title = DefaultTitle

\* a title that is not valid UTF-8 was dropped: nothing put out, the title
\* captured before it still there
C24_WitnessInvalid ==
    /\ fed = OscBadUtf8Bel
    /\ Output = <<>>
    /\ filter.state.in_window_title = DefaultTitle
    /\ captures = 1

\* ------------------------------------------------------- chunk boundaries
\* the filter after the whole input in one fill, never flushed
Whole == fill(FilterNew, fed)

\* C29: however the input is cut into reads, each followed by a flush, the
\* bytes written and the bytes still in the buffer are together what one
\* fill of the whole input puts in the buffer, and the inbound title and
\* the parser are where that fill leaves them.
C29_SplitIndependent ==
    /\ Output = Whole.state.buffer
    /\ filter.state.in_window_title = Whole.state.in_window_title
    /\ filter.parser = Whole.parser

\* the DCS scenario, with its payload and its ESC \, has come in several
\* reads, three of them flushed, and all of its output is written
C29_Witness ==
    /\ fed = DcsInput
    /\ flushes = 3
    /\ stdout = Whole.state.buffer
    /\ \E k \in 1..Len(trace) :
          /\ trace[k].state = "DcsPassthrough"
          /\ \E m \in (k + 1)..Len(trace) : trace[m].state = "Escape"

\* ------------------------------------------------ the check after a capture
IsSuffix(p, q) == Len(p) <= Len(q) /\ SubSeq(q, Len(q) - Len(p) + 1, Len(q)) = p

\* handle is about to call maybe_check, the last event was a read of the PTY
\* master that changed the inbound title, and no check was made since
AfterCapture ==
    /\ pc = "check"
    /\ last_event.kind = "master_title"
    /\ check_interval = MIN_CHECK_INTERVAL

\* the step makes a check
CheckMade == Len(checks') = Len(checks) + 1

\* the bytes the step adds to the filter output, written or not
AddedByStep ==
    LET out == IF written' # <<>> THEN written' ELSE filter'.state.buffer
    IN SubSeq(out, Len(filter.state.buffer) + 1, Len(out))

\* the check is due 100 ms after the one before: made in this step if that
\* time has come, and else the wait is set to end at that time
DueAfterMinimum ==
    /\ last_check_time # <<>>
    /\ IF now >= last_check_time[1] + MIN_CHECK_INTERVAL
       THEN CheckMade
       ELSE ~CheckMade /\ remaining' = last_check_time[1] + MIN_CHECK_INTERVAL - now

\* C28 (as claimed): after a read that has captured a new inbound title the
\* check is due 100 ms after the check before, and unless a DCS is in
\* progress it puts out a title sequence that ends with the new inbound
\* title.
C28_NewTitleEmitted ==
    [][AfterCapture
       => /\ DueAfterMinimum
          /\ (CheckMade /\ ~filter.state.in_dcs)
             => IsSuffix(filter.state.in_window_title \o ST, AddedByStep)]_vars

\* C28 (amended): after a read that has captured a new inbound title the
\* check is due 100 ms after the check before; it puts out the sequence
\* of the composed title, which ends with the new inbound title, unless a
\* DCS is in progress or the composed title is the one set last, and then
\* it puts out nothing.
C28_NewTitleChecked ==
    [][AfterCapture
       => /\ DueAfterMinimum
          /\ CheckMade
             => LET title == make_window_title(tracker', Home, filter.state.in_window_title)
                IN IF ~filter.state.in_dcs /\ title # filter.state.out_window_title
                   THEN /\ AddedByStep = TitleSequence(title)
                        /\ IsSuffix(filter.state.in_window_title, title)
                   ELSE AddedByStep = <<>>]_vars

\* a read captured the title "x" 50 ms after a check, and the check made
\* 100 ms after that one has written a title ending in x
C28_Witness ==
    /\ pc = "wait"
    /\ last_event.kind = "master_title"
    /\ filter.state.in_window_title = <<CH_x>>
    /\ Len(checks) >= 2
    /\ checks[Len(checks)].before = MIN_CHECK_INTERVAL
    /\ checks[Len(checks)].at = checks[Len(checks) - 1].at + MIN_CHECK_INTERVAL
    /\ written = TitleSequence(make_window_title(tracker, Home, <<CH_x>>))

\* a read captured "x" and the next one "ttymon" again before a check was
\* due: the check has put out nothing
C28_TitleBack ==
    /\ pc = "wait"
    /\ last_event.kind = "master_title"
    /\ reads = 2
    /\ filter.state.in_window_title = DefaultTitle
    /\ IsSuffix(DefaultTitle, filter.state.out_window_title)
    /\ Len(checks) = 2
    /\ written = <<>>
    /\ filter.state.buffer = <<>>

\* ------------------------------------------------------- the stat fields
\* the fields put together again with one space between two
RECURSIVE JoinSpaces(_)
JoinSpaces(fields) ==
    IF fields = <<>> THEN <<>>
    ELSE IF Len(fields) = 1 THEN fields[1]
    ELSE fields[1] \o <<SP>> \o JoinSpaces(Tail(fields))

\* content has the bytes a, b at the positions i, i + 1
PairAt(content, i, a, b) ==
    i >= 1 /\ i < Len(content) /\ content[i] = a /\ content[i + 1] = b

\* fields are: the text before the first " (", the text between it and the
\* last ") ", and the fields separated by single spaces after that
FieldsOf(content, fields) ==
    /\ Len(fields) >= 3
    /\ LET after == SubSeq(fields, 3, Len(fields))
           open == Len(fields[1]) + 1
           close == open + 2 + Len(fields[2])
       IN /\ content = fields[1] \o <<SP, LPAREN>> \o fields[2] \o <<RPAREN, SP>>
                       \o JoinSpaces(after)
          /\ \A i \in 1..(open - 1) : ~PairAt(content, i, SP, LPAREN)
          /\ \A i \in (close + 1)..Len(content) : ~PairAt(content, i, RPAREN, SP)
          /\ \A k \in 1..Len(after) : \A i \in 1..Len(after[k]) : after[k][i] # SP

\* the value at an index (from 0) of the fields, as get_stat_field is to give it
FieldValue(fields, index) ==
    IF Len(fields) > index THEN ParseI32(fields[index + 1]) ELSE <<>>

\* C27: for every content of a stat file, StatParser::parse either gives the
\* fields (the text before the first " (", the text between it and the last
\* ") ", the space-separated fields after, with ppid, pgrp and tty_pgrp at the
\* indices 3, 4 and 7) or gives an error; it never aborts
C27_ParseNeverAborts ==
    stat_result # <<>> =>
        LET r == stat_result[1]
        IN \/ /\ r.parsed.kind = "ok"
              /\ FieldsOf(stat_content, r.parsed.fields)
              /\ r.parent = FieldValue(r.parsed.fields, 3)
              /\ r.process_group = FieldValue(r.parsed.fields, 4)
              /\ r.tty_process_group = FieldValue(r.parsed.fields, 7)
           \/ /\ r.parsed.kind = "err"
              /\ r.parent = <<>>
              /\ r.process_group = <<>>
              /\ r.tty_process_group = <<>>

\* the content is parsed into fields with the three values read from them
StatParsedOk ==
    /\ stat_result # <<>>
    /\ stat_result[1].parsed.kind = "ok"
    /\ stat_result[1].parent # <<>>
    /\ stat_result[1].process_group # <<>>
    /\ stat_result[1].tty_process_group # <<>>

\* the contents StatParser::parse panics on: the empty one, and those whose
\* last ") " lies before the first " ("
StatAborts(content) ==
    \/ content = <<>>
    \/ /\ OpenParen(content) # NOT_FOUND
       /\ CloseParen(content) # NOT_FOUND
       /\ CloseParen(content) < OpenParen(content)

\* what the code does: it panics on exactly the contents of StatAborts, and
\* on every other content gives the fields as C27 describes them, or an error
C27_ParseOutsideAborts ==
    stat_result # <<>> =>
        LET r == stat_result[1]
        IN /\ r.parsed.kind = "panic" <=> StatAborts(stat_content)
           /\ r.parsed.kind = "ok" =>
                /\ FieldsOf(stat_content, r.parsed.fields)
                /\ r.parent = FieldValue(r.parsed.fields, 3)
                /\ r.process_group = FieldValue(r.parsed.fields, 4)
                /\ r.tty_process_group = FieldValue(r.parsed.fields, 7)
           /\ r.parsed.kind = "err" =>
                OpenParen(stat_content) = NOT_FOUND \/ CloseParen(stat_content) = NOT_FOUND

\* the parse of a content whose last ") " lies before the first " (" panicked
StatAbortedOnOrder ==
    /\ stat_result # <<>>
    /\ stat_content # <<>>
    /\ stat_result[1].parsed.kind = "panic"

\* ------------------------------------------------ errors during update()
\* the last update() has returned
Returned == walked # <<>> /\ ~walked[1].cut

C21_WitnessArgv0 ==
    /\ Returned
    /\ last_update[1].child # 0
    /\ Len(root) = 2
    /\ ~root[2].fresh
    /\ procfs[1].group[root[2].key].argv0 = "err"
    /\ tracker.foreground_argv0 = <<>>

\* ------------------------------------------- metadata found on a later try
\* the root's Group had a Session under it before the last update() and
\* the resolver gave the same pid again in it, now with metadata
SamePidNowWithMetadata ==
    /\ Returned
    /\ last_update[1].child # 0
    /\ Len(root) = 3
    /\ ~root[2].fresh
    /\ root[3].key = last_update[1].child
    /\ procfs[1].group[root[2].key].argv0 = "toolbox"
    /\ procfs[1].group[root[2].key].peer # <<>>
    /\ procfs[1].group[root[2].key].peer[1].info # <<>>

\* C25: when the resolver gives a contained pid that an earlier update()
\* found without metadata, and now gives metadata with it, container_info()
\* returns that metadata after the update()
C25_MetadataOnRetry ==
    SamePidNowWithMetadata =>
        tracker.container_info = procfs[1].group[root[2].key].peer[1].info

\* what the code does: while the root's Group and the pid under it stay the
\* same, the Session under it keeps the metadata it was made with
C25_MetadataKeptWithPid ==
    [][(/\ Len(root) >= 3
        /\ Len(root') >= 3
        /\ root'[2].key = root[2].key
        /\ root'[3].key = root[3].key)
       => root'[3].info = root[3].info]_vars

\* the resolver gives metadata for the pid and container_info() is None
C25_MetadataMissed ==
    /\ SamePidNowWithMetadata
    /\ tracker.container_info = <<>>

\* ------------------------------------------------ the end of the walk
\* C26: in every snapshot update() returns, with no more nodes on the chain
\* than there are processes
C26_UpdateTerminates ==
    walked # <<>> => ~walked[1].cut /\ walked[1].nodes <= NumProcesses

\* the snapshot sends the walk round: the contained Session's foreground
\* group is a Group of the toolbox whose peer is that Session's pid
GoesRound ==
    /\ Len(root) > NumProcesses
    /\ root[Len(root)].key = root[Len(root) - 2].key
    /\ procfs[1].tty[root[Len(root)].key] = root[Len(root) - 1].key
    /\ FindPeer(procfs[1].group[root[Len(root) - 1].key]) # <<>>
    /\ FindPeer(procfs[1].group[root[Len(root) - 1].key])[1].pid = root[Len(root)].key

\* what the code does: the loop is still descending with more nodes than
\* processes exactly in the snapshots that send it round, where every pass
\* reads the same answers and adds the same two nodes
C26_CutOnlyGoingRound ==
    walked # <<>> => (walked[1].cut <=> GoesRound)

\* the loop did not come to an end
C26_NeverEnds == walked # <<>> /\ walked[1].cut

====
